---- MODULE Spec2Model ----
(***************************************************************************)
(* Incident-response pipeline: Planner -> (Collaborator) -> Actor ->       *)
(* Learner over a topic-routing broker, with the Actor's tool sandbox.     *)
(*                                                                         *)
(* Modelling conventions                                                   *)
(*  - A path is a record [abs, parts]; parts is the sequence of its        *)
(*    components.  pathlib's resolve() is Normalize (".." pops a           *)
(*    component, the root is its own parent); symbolic links are not       *)
(*    modelled.                                                            *)
(*  - Risk values are tenths (0.3 is 3).                                   *)
(*  - Instruction texts are sequences of lower-case words.                 *)
(*  - "null" stands for None / an absent JSON field.                       *)
(*                                                                         *)
(* Specifications                                                          *)
(*  - Spec: one Actor process fed approved plans by the environment.       *)
(*  - SpecSandbox: single calls of the sandbox tool functions.             *)
(*  - SpecPipeline: incidents through Planner, approval gate and Actor.    *)
(*    The repository has no bus code for the Collaborator; its gate is     *)
(*    written from section 4.3 of the specification.                       *)
(*  - SpecPlanner: the Planner alone, on the broker as the agents' code    *)
(*    declares it.                                                         *)
(*  - SpecLearner: the Learner fed messages with routing key 'resolved'.   *)
(*  - SpecQuota: the Planner's quota manager under checks, records and     *)
(*    the passing of time.                                                 *)
(*  - SpecSynthesis: the Planner's choice between enhanced and basic       *)
(*    synthesis, with the quota it consumes.                               *)
(*  - SpecNormalize: normalize_incident applied to an incident and then    *)
(*    to its own output.  error_rate is in thousandths.                    *)
(*  - SpecGather: single calls of gather_all_context.  Similarities are    *)
(*    hundredths, confidence is thousandths.                               *)
(*  - SpecStore: the plans collection under the Planner's saves and the    *)
(*    Actor's status updates.                                              *)
(*  - SpecCompile: the Actor's compilation of restart and scale            *)
(*    instructions.                                                        *)
(*  - SpecRetry: calls through exponential_backoff, and the enricher's     *)
(*    calls of its sources.  Delays are milliseconds.                      *)
(*  - SpecBreaker: successive calls through execute_with_circuit_breaker.  *)
(*  - SpecHistory: the vector collections of past incidents under the      *)
(*    Planner's plannings and the Learner's memorizing.                    *)
(*  - Routing and binding keys are sequences of words ('incidents.resolved'*)
(*    is <<"incidents", "resolved">>); times are seconds.                  *)
(***************************************************************************)
EXTENDS Integers, Sequences, FiniteSets, TLC

Null == "null"

(***************************************************************************)
(* Bounds of the model                                                     *)
(***************************************************************************)
\* approved-plan messages the environment publishes to the Actor
MaxApproved == 2
\* connection losses that make the broker redeliver an unacknowledged message
MaxLost == 1
\* deliveries of incidents to the Planner
MaxPlannerRuns == 2

(***************************************************************************)
(* Paths and the sandbox root (mcp_server.py)                              *)
(***************************************************************************)
RelPath(parts) == [abs |-> FALSE, parts |-> parts]

AbsPath(parts) == [abs |-> TRUE, parts |-> parts]

\* the resolved ACTOR_SANDBOX_DIR
SandboxBase == <<"srv", "sandbox">>

RECURSIVE NormalizeFrom(_, _)
NormalizeFrom(acc, parts) ==
    IF parts = <<>> THEN acc
    ELSE IF Head(parts) = ".."
         THEN NormalizeFrom(IF acc = <<>> THEN <<>> ELSE SubSeq(acc, 1, Len(acc) - 1),
                            Tail(parts))
         ELSE IF Head(parts) = "."
              THEN NormalizeFrom(acc, Tail(parts))
              ELSE NormalizeFrom(Append(acc, Head(parts)), Tail(parts))

\* pathlib: (base / p).resolve(); an absolute p replaces base
Join(base, p) == IF p.abs THEN p.parts ELSE base \o p.parts

Normalize(parts) == NormalizeFrom(<<>>, parts)

IsPrefix(s, t) == Len(s) <= Len(t) /\ SubSeq(t, 1, Len(s)) = s

\* base in target.parents or target = base
InsideBase(target) == IsPrefix(SandboxBase, target)

\* _resolve_sandbox_cwd: [raised, path]; `not cwd` covers None and ""
ResolveSandboxCwdNoGuard(hasCwd, cwd) ==
    IF ~hasCwd \/ (~cwd.abs /\ cwd.parts = <<>>)
    THEN [raised |-> FALSE, path |-> SandboxBase]
    ELSE [raised |-> FALSE, path |-> Normalize(Join(SandboxBase, cwd))]

ResolveSandboxCwd(hasCwd, cwd) ==
    IF ~hasCwd \/ (~cwd.abs /\ cwd.parts = <<>>)
    THEN [raised |-> FALSE, path |-> SandboxBase]
    ELSE LET target == Normalize(Join(SandboxBase, cwd))
         IN  IF ~InsideBase(target)
             THEN [raised |-> TRUE, path |-> target]
             ELSE [raised |-> FALSE, path |-> target]

(***************************************************************************)
(* Tool results.  A result is what a tool function returns or raises,      *)
(* together with the effects it had:                                       *)
(*   procs  the subprocesses it started, as [cmd, cwd]                     *)
(*   fsops  the directories and files it created, as [kind, path]          *)
(***************************************************************************)
NoPath == <<"<none>">>

Res(ok, error, cwd, raised, procs, fsops) ==
    [ok |-> ok, error |-> error, cwd |-> cwd, raised |-> raised,
     procs |-> procs, fsops |-> fsops]

\* ACTOR_ALLOWED_CMDS default
DefaultAllowedCmds == {"cmd", "git", "python", "pytest", "echo", "kubectl"}

ShellOutcomes == {"exit0", "exit1", "spawn_error"}

\* what shell_run does once the command has passed the allow-list
shell_exec(cmd, hasCwd, cwd, o) ==
    LET r == ResolveSandboxCwd(hasCwd, cwd)
    IN  IF r.raised
        THEN Res(FALSE, "escapes sandbox", NoPath, FALSE, <<>>, {})
        ELSE IF o = "spawn_error"
             THEN Res(FALSE, "spawn error", r.path, FALSE, <<>>, {})
             ELSE Res(o = "exit0", Null, r.path, FALSE,
                      <<[cmd |-> cmd, cwd |-> r.path, ok |-> o = "exit0"]>>, {})

\* shell_run without the test of line 21
shell_run_unchecked(allow, cmd, hasCwd, cwd, o) == shell_exec(cmd, hasCwd, cwd, o)

\* shell_run(cmd, args, cwd, env) under the allow-list `allow`; `o` is what the
\* operating system does with the subprocess
shell_run(allow, cmd, hasCwd, cwd, o) ==
    IF cmd \notin allow
    THEN Res(FALSE, "not allowed", NoPath, FALSE, <<>>, {})
    ELSE shell_exec(cmd, hasCwd, cwd, o)

HttpOutcomes == {"2xx", "non2xx", "raise"}

\* http_request(method, url, json, headers): no cwd parameter
http_request(hasCwd, o) ==
    IF hasCwd \/ o = "raise"
    THEN Res(FALSE, "http error", NoPath, TRUE, <<>>, {})
    ELSE Res(o = "2xx", Null, NoPath, FALSE, <<>>, {})

FsOutcomes == {"written", "oserror"}

\* fs_write(path, content, cwd): only cwd goes through the sandbox guard
fs_write(path, hasCwd, cwd, o) ==
    LET r == ResolveSandboxCwd(hasCwd, cwd)
    IN  IF r.raised
        THEN Res(FALSE, "escapes sandbox", NoPath, TRUE, <<>>, {})
        ELSE LET p      == Normalize(Join(r.path, path))
                 parent == IF p = <<>> THEN <<>> ELSE SubSeq(p, 1, Len(p) - 1)
             IN  IF o = "oserror"
                 THEN Res(FALSE, "os error", NoPath, TRUE, <<>>, {})
                 ELSE Res(TRUE, Null, NoPath, FALSE, <<>>,
                          {[kind |-> "dir", path |-> parent],
                           [kind |-> "file", path |-> p]})

docker(allow, hasCwd, cwd, o) == shell_run(allow, "docker", hasCwd, cwd, o)

\* compose: `docker compose` first, `docker-compose` when the first is not ok
compose(allow, hasCwd, cwd, o1, o2) ==
    LET first == shell_run(allow, "docker", hasCwd, cwd, o1)
    IN  IF first.ok THEN first
        ELSE LET second == shell_run(allow, "docker-compose", hasCwd, cwd, o2)
             IN  [second EXCEPT !.procs = first.procs \o second.procs]

kubectl(allow, hasCwd, cwd, o) == shell_run(allow, "kubectl", hasCwd, cwd, o)

(***************************************************************************)
(* Steps and instruction compilation (compile_plan.py, actor/main.py)      *)
(***************************************************************************)
NoCwd == RelPath(<<>>)

Args(cmd, argv, hasCwd, cwd, path) ==
    [cmd |-> cmd, argv |-> argv, hasCwd |-> hasCwd, cwd |-> cwd, path |-> path]

Step(tool, args) == [tool |-> tool, args |-> args]

\* Only these tools are allowed to be generated
ALLOWED_TOOLS == {"shell.run", "http.request", "compose.run", "fs.write", "kubectl.run"}

KubectlStep(argv) == Step("kubectl.run", Args(Null, argv, FALSE, NoCwd, NoCwd))

\* cmd_step in _fallback_steps_for_instructions: kubectl behind the cmd wrapper
cmd_step(argv) == Step("shell.run", Args("cmd", <<"/c", "kubectl">> \o argv, FALSE, NoCwd, NoCwd))

Digits == {"3", "5"}

WordIdx(words, w) == {i \in 1..Len(words) : words[i] = w}

Range(f) == {f[i] : i \in DOMAIN f}

RECURSIVE SumSeq(_)
SumSeq(seq) == IF seq = <<>> THEN 0 ELSE Head(seq) + SumSeq(Tail(seq))

Max(S) == CHOOSE x \in S : \A y \in S : y <= x

Min(S) == CHOOSE x \in S : \A y \in S : x <= y

\* positions j of "deployment" followed by a word, after position i
DeploymentAfter(words, i) ==
    {j \in WordIdx(words, "deployment") : j > i /\ j < Len(words)}

\* positions k > j of "to" or "=" followed by a number
ToNumberAfter(words, j) ==
    {k \in 1..Len(words) : k > j /\ k < Len(words)
                           /\ words[k] \in {"to", "="} /\ words[k + 1] \in Digits}

\* _rule_based_compile: <<>> stands for None.  The regular expressions are
\* read on whole words; `.*` is greedy, so the last "deployment" is taken.
rule_based_compile(words) ==
    LET ns       == "sandbox"
        restarts == {i \in WordIdx(words, "restart") : DeploymentAfter(words, i) # {}}
        scales   == {i \in WordIdx(words, "scale") :
                        \E j \in DeploymentAfter(words, i) : ToNumberAfter(words, j + 1) # {}}
    IN  IF restarts # {}
        THEN LET j   == Max(DeploymentAfter(words, Min(restarts)))
                 dep == words[j + 1]
             IN  <<KubectlStep(<<"rollout", "restart", "deployment/" \o dep, "-n", ns>>),
                   KubectlStep(<<"rollout", "status", "deployment/" \o dep, "-n", ns>>)>>
        ELSE IF scales # {}
             THEN LET i   == Min(scales)
                      j   == Max({jj \in DeploymentAfter(words, i) :
                                     ToNumberAfter(words, jj + 1) # {}})
                      k   == Max(ToNumberAfter(words, j + 1))
                      dep == words[j + 1]
                      n   == words[k + 1]
                  IN  <<KubectlStep(<<"scale", "deployment/" \o dep, "--replicas=" \o n, "-n", ns>>),
                        KubectlStep(<<"rollout", "status", "deployment/" \o dep, "-n", ns>>)>>
             ELSE <<>>

\* what the LLM compile pass can answer: an exception of the call or of the
\* JSON extraction, or a parsed {"steps": [...]} object
LlmRaise == [raised |-> TRUE, steps |-> <<>>]

LlmSteps(steps) == [raised |-> FALSE, steps |-> steps]

\* _normalize_steps_object on steps already of the form {tool, args}:
\* placeholder cwd values and the cwd of non-filesystem tools are removed
normalize_step(s) ==
    LET placeholder == s.args.hasCwd /\ ~s.args.cwd.abs
                       /\ s.args.cwd.parts \in {<<>>, <<"relative", "path">>}
        nonFs       == s.tool \in {"kubectl.run", "http.request", "compose.run"}
    IN  IF placeholder \/ nonFs
        THEN [s EXCEPT !.args.hasCwd = FALSE, !.args.cwd = NoCwd]
        ELSE s

normalize_steps_object(steps) == [i \in 1..Len(steps) |-> normalize_step(steps[i])]

\* nl_to_steps without the allow-list loop of lines 230-232
nl_to_steps_unchecked(words, llm) ==
    LET rb == rule_based_compile(words)
    IN  IF rb # <<>> THEN [raised |-> FALSE, steps |-> rb]
        ELSE IF llm.raised THEN LlmRaise
             ELSE [raised |-> FALSE, steps |-> normalize_steps_object(llm.steps)]

\* nl_to_steps(instructions): [raised, steps]
nl_to_steps(words, llm) ==
    LET rb == rule_based_compile(words)
    IN  IF rb # <<>> THEN [raised |-> FALSE, steps |-> rb]
        ELSE IF llm.raised THEN LlmRaise
             ELSE LET steps == normalize_steps_object(llm.steps)
                  IN  IF \E i \in 1..Len(steps) : steps[i].tool \notin ALLOWED_TOOLS
                      THEN LlmRaise
                      ELSE [raised |-> FALSE, steps |-> steps]

\* _fallback_steps_for_instructions(text)
fallback_steps_for_instructions(words) ==
    LET ns     == "sandbox"
        deps   == DeploymentAfter(words, 0)
        deploy == IF deps # {} THEN words[Min(deps) + 1] ELSE "hello"
        repl   == {k \in 1..Len(words) : k < Len(words)
                      /\ words[k] \in {"replica", "replicas"}
                      /\ (words[k + 1] \in Digits
                          \/ (k + 1 < Len(words) /\ words[k + 1] = "="
                              /\ words[k + 2] \in Digits))}
        tos    == {k \in WordIdx(words, "to") : k < Len(words) /\ words[k + 1] \in Digits}
        number == IF repl # {}
                  THEN (IF words[Min(repl) + 1] = "=" THEN words[Min(repl) + 2]
                        ELSE words[Min(repl) + 1])
                  ELSE words[Min(tos) + 1]
    IN  IF WordIdx(words, "restart") # {}
        THEN <<cmd_step(<<"rollout", "restart", "deployment/" \o deploy, "-n", ns>>),
               cmd_step(<<"rollout", "status", "deployment/" \o deploy, "-n", ns>>)>>
        ELSE IF WordIdx(words, "scale") # {} /\ (repl # {} \/ tos # {})
             THEN <<cmd_step(<<"scale", "deployment/" \o deploy, "--replicas=" \o number, "-n", ns>>),
                    cmd_step(<<"rollout", "status", "deployment/" \o deploy, "-n", ns>>)>>
             ELSE <<>>

(***************************************************************************)
(* Plans delivered to the Actor                                            *)
(***************************************************************************)
NoRisk == -1

\* the metadata of a plan that has none
NoMetadata == [plan_type |-> Null, error |-> Null, enhanced |-> FALSE]

\* a plan body; remediation_plan, risk_score and metadata are the fields of
\* the Planner's fallback plan
Plan(id, incident_id, idempotency_key, risk, steps, instructions) ==
    [json |-> TRUE, id |-> id, incident_id |-> incident_id,
     idempotency_key |-> idempotency_key, risk |-> risk, risk_level |-> Null,
     status |-> "approved", title |-> Null, steps |-> steps,
     instructions |-> instructions,
     remediation_plan |-> <<>>, risk_score |-> NoRisk, metadata |-> NoMetadata]

\* a message body that json.loads rejects
BadJson == [Plan(Null, Null, Null, NoRisk, <<>>, <<>>) EXCEPT !.json = FALSE]

ShellStep(cmd, hasCwd, cwd) == Step("shell.run", Args(cmd, <<"hi">>, hasCwd, cwd, NoCwd))

FsStep(path, hasCwd, cwd) == Step("fs.write", Args(Null, <<>>, hasCwd, cwd, path))

ToolStep(tool, hasCwd, cwd) == Step(tool, Args(Null, <<"ps">>, hasCwd, cwd, NoCwd))

EscapingPath == RelPath(<<"..", "..", "..", "..", "etc", "passwd">>)

Restart == <<"restart", "the", "hello", "deployment", "in", "sandbox", "namespace">>

Investigate == <<"investigate", "the", "latency">>

ApprovedPlans ==
    { Plan("p1", "INC-1", Null, 1,
           <<ShellStep("echo", TRUE, RelPath(<<"a">>)), KubectlStep(<<"get", "pods">>)>>, <<>>),
      \* shares the key of p1 through an explicit idempotency_key
      Plan("p2", "INC-1", "INC-1:p1", NoRisk, <<FsStep(RelPath(<<"a", "f">>), FALSE, NoCwd)>>, <<>>),
      Plan("p3", "INC-1", "k3", 9, <<>>, Restart),
      Plan("p4", "INC-2", Null, 3,
           <<FsStep(EscapingPath, FALSE, NoCwd), ToolStep("http.request", FALSE, NoCwd)>>, <<>>),
      Plan("p5", "INC-2", Null, NoRisk, <<>>, Restart),
      Plan("p6", "INC-2", Null, NoRisk, <<>>, <<>>),
      Plan("p7", "INC-2", Null, NoRisk, <<>>, Investigate),
      Plan("p8", "INC-2", Null, 1, <<ToolStep("docker.run", FALSE, NoCwd)>>, <<>>),
      BadJson }

\* answers of the LLM compile pass
LlmAnswers ==
    { LlmRaise,
      LlmSteps(<<>>),
      LlmSteps(<<ToolStep("kubectl.run", TRUE, RelPath(<<"relative", "path">>))>>),
      LlmSteps(<<ToolStep("docker.run", FALSE, NoCwd)>>) }

\* ACTOR_AUTONOMY_MAX_RISK default 0.3, in tenths
MaxAutonomyRisk == 3

Get(v, default) == IF v = Null THEN default ELSE v

PlanRisk(plan) == IF plan.risk = NoRisk THEN 0 ELSE plan.risk

\* plan.get("idempotency_key") or f"{incident_id}:{id}"
IdempKey(plan) ==
    IF plan.idempotency_key \in {Null, ""}
    THEN Get(plan.incident_id, "N/A") \o ":" \o Get(plan.id, "N/A")
    ELSE plan.idempotency_key

(***************************************************************************)
(* State                                                                   *)
(***************************************************************************)
VARIABLES
    \* broker
    qApproved,      \* q.plans.approved: messages [plan, redelivered]
    dlq,            \* messages dead-lettered from q.plans.approved
    resolutions,    \* Resolutions accepted by the incidents exchange, in order
    \* Actor process
    allowed,        \* ACTOR_ALLOWED_CMDS of this deployment
    seen_keys,      \* app.state.seen_keys
    actor,          \* the delivery process_plan is working on, and its position
    \* persistent plan store: plan id -> status ("absent" when no record)
    planStore,
    \* effects of the sandbox
    procs,          \* subprocesses started: [tag, cmd, cwd]
    fs,             \* directories and files created: [kind, path]
    \* history of the Actor's deliveries
    dispatched,     \* loop iterations of process_plan: [tag, key, step, tool, ran]
    settled,        \* ended deliveries
    nextTag, nApproved, nLost,
    \* the last direct call of a sandbox tool: [step, res]
    lastCall,
    \* broker, upstream of the Actor
    qNew,           \* q.incidents.new: messages [id, json, redelivered, attempts]
    qProposed,      \* plans published with key "proposed", not yet taken
    held,           \* proposed plans waiting for an explicit approval
    \* Planner process
    request_cache,  \* request_cache of generate_plan_with_gemini: incident -> plan
    \* history of the pipeline
    incidents,      \* ids of the bodies published with key "new"
    proposed,       \* every plan the Planner published, in order
    plannerLog,     \* history of the Planner's deliveries
    now,            \* the Planner's time.time(), in seconds
    nPlannerRuns,
    \* broker topology and the stages after the Actor
    bindings,       \* the queue bindings declared: [exchange, key, queue]
    approvals,      \* what the approval gate published on plans/approved
    qResolved,      \* q.incidents.resolved: message bodies
    \* Learner process
    notion,         \* whether a Notion client was built at start-up
    chroma,         \* whether chroma_client and collection were built
    collection,     \* the incident_history collection: id -> entry
    learned,        \* history of the Learner's deliveries
    nResolved, clock,
    \* Planner: the QuotaManager instance
    daily_usage,    \* timestamps of the requests of the last day, as last cleaned
    hourly_usage,   \* timestamps of the requests of the last hour, as last cleaned
    request_history,\* every recorded request: its timestamp
    quotaNow,       \* time.time() of the quota manager, in seconds
    quotaCall,      \* the last call of can_make_request
    nQuotaTicks,
    synthesis,      \* the last choice of the synthesis path by the Planner
    normalization,  \* an incident, its normalized record and that record normalized again
    gathering,      \* the last call of gather_all_context and its EnrichedContext
    plan_docs,      \* the documents of the plans collection, in insertion order
    storeNow,       \* datetime.utcnow() of the next write to the collection
    compilation,    \* the last instructions the Actor compiled, and their steps
    retry,          \* a call of a function that may fail, and its attempts
    breaker,        \* the calls through the circuit breaker, and the last of them
    history         \* the vector collections of past incidents, and who wrote them

plannerVars == <<qNew, qProposed, held, request_cache, incidents, proposed, nPlannerRuns,
                 plannerLog, now>>

actorVars == <<qApproved, dlq, resolutions, allowed, seen_keys, actor, planStore,
               procs, fs, dispatched, settled, nextTag, nApproved, nLost>>

learnerVars == <<notion, chroma, collection, learned, nResolved, clock>>

busVars == <<bindings, approvals>>

quotaVars == <<daily_usage, hourly_usage, request_history, quotaNow, quotaCall, nQuotaTicks>>

\* the components beside the message flow
\* the state of the Planner's functions on data
storeVars == <<plan_docs, storeNow>>

dataVars == <<normalization, gathering, storeVars, compilation>>

\* the state of the Planner's retry utilities
utilVars == <<retry, breaker, history>>

extVars == <<quotaVars, synthesis, dataVars, utilVars>>

vars == <<actorVars, lastCall, plannerVars, busVars, qResolved, learnerVars, extVars>>

\* ids of the incidents the environment publishes on incidents/new
Incidents == {"INC-1"}

\* ids of the plans the Planner can publish: the model's own, or the default
PlannerPlanIds == {"plan_" \o i : i \in Incidents} \cup {"plan-b"}

PlanIds == {"p1", "p2", "p3", "p4", "p5", "p6", "p7", "p8"} \cup PlannerPlanIds

\* values of ACTOR_ALLOWED_CMDS
AllowedConfigs ==
    { DefaultAllowedCmds,
      DefaultAllowedCmds \cup {"docker", "docker-compose"},
      DefaultAllowedCmds \cup {"docker"},
      DefaultAllowedCmds \cup {"docker-compose"},
      {"echo"} }

Idle == [pc |-> "idle", tag |-> 0, plan |-> BadJson, redelivered |-> FALSE,
         key |-> Null, steps |-> <<>>, idx |-> 0, status |-> Null,
         outputs |-> <<>>, compiled |-> FALSE]

NoCall == [step |-> Step(Null, Args(Null, <<>>, FALSE, NoCwd, NoCwd)),
           res |-> Res(FALSE, Null, NoPath, FALSE, <<>>, {})]

(***************************************************************************)
(* Broker: topic exchanges.  Routing and binding keys are sequences of the *)
(* words that the dots of the key separate.                                *)
(***************************************************************************)
Binding(exchange, key, queue) == [exchange |-> exchange, key |-> key, queue |-> queue]

\* a topic exchange matches word by word; "*" stands for one word and "#"
\* for any number of them
RECURSIVE TopicMatch(_, _)
TopicMatch(pattern, key) ==
    IF pattern = <<>> THEN key = <<>>
    ELSE IF Head(pattern) = "#"
         THEN TopicMatch(Tail(pattern), key)
              \/ (key # <<>> /\ TopicMatch(pattern, Tail(key)))
         ELSE /\ key # <<>>
              /\ Head(pattern) \in {"*", Head(key)}
              /\ TopicMatch(Tail(pattern), Tail(key))

\* the queues a message published on the exchange with the key is copied
\* to; with none, the exchange drops the message (no agent publishes with
\* the mandatory flag)
Route(b, exchange, key) ==
    {x.queue : x \in {y \in b : y.exchange = exchange /\ TopicMatch(y.key, key)}}

\* the bindings the agents declare when they start
CodeBindings ==
    { Binding("incidents", <<"new">>, "q.incidents.new"),
      Binding("plans", <<"approved">>, "q.plans.approved"),
      Binding("incidents", <<"resolved">>, "q.incidents.resolved") }

\* the binding of the approval gate's queue
GateBindings == { Binding("plans", <<"proposed">>, "q.plans.proposed") }

\* a message body as the Learner reads it: json is "object", "array" (JSON,
\* but no object) or "invalid"; then the fields "id", "incident_id" and
\* "status" (Null when the object has none)
Body(json, id, incident_id, status) ==
    [json |-> json, id |-> id, incident_id |-> incident_id, status |-> status]

\* lines 182-190: the Actor's Resolution has incident_id and plan_id, no "id"
Resolution(incident_id, status) == Body("object", Null, incident_id, status)

\* the routing key of the Actor's Resolutions, 'incidents.resolved'
ResolutionKey == <<"incidents", "resolved">>

\* a normalized incident as the choice of the synthesis path reads it: the
\* words of affected_service between its hyphens (NoService for None), and
\* the derived severity and error-log count
NoService == <<Null>>

SynthesisIncident(service, severity, error_log_count) ==
    [service |-> service, severity |-> severity, error_log_count |-> error_log_count]

NoSynthesis ==
    [incident |-> SynthesisIncident(NoService, Null, 0), permitted |-> FALSE, engine |-> FALSE,
     gathered |-> FALSE, llmOk |-> FALSE, use |-> Null, path |-> Null, outcome |-> Null,
     plan_type |-> Null, generated_by |-> Null]

\* no call was made
NoRetry ==
    [pc |-> "idle", caller |-> Null, schedule |-> <<>>, attempt |-> 0,
     current_delay |-> 0, delays |-> <<>>, result |-> 0]

\* no call went through the circuit breaker
NoBreaker ==
    [calls |-> 0, time |-> 0, consecutive |-> 0, last_failure |-> 0,
     invoked |-> FALSE, raised |-> FALSE, since |-> 0, before |-> 0,
     state |-> "CLOSED"]

\* no planning was done with the history index
NoPlanning == [id |-> Null, first |-> FALSE, similar |-> {}, stored |-> FALSE,
               published |-> FALSE]

\* the collections are empty
NoHistory ==
    [incident_history |-> {}, incidents |-> {}, planned |-> {}, resolved |-> {},
     last |-> NoPlanning, plans |-> 0]

\* nothing was compiled
NoCompilation ==
    [done |-> FALSE, instructions |-> <<>>, verb |-> Null, deployment |-> Null,
     namespace |-> Null, replicas |-> Null, llm |-> LlmRaise, steps |-> <<>>]

\* EnrichedContext(): the defaults of its fields.  Confidence is in
\* thousandths, gathering_errors is the set of the tags that have an entry.
EnrichedContext ==
    [loki_logs |-> <<>>, similar_incidents |-> <<>>, recent_commits |-> <<>>,
     web_knowledge |-> <<>>, sources_used |-> <<>>, internal_confidence |-> 0,
     web_search_triggered |-> FALSE, web_search_reason |-> Null, gathering_errors |-> {}]

\* gather_all_context was not called
NoGathering ==
    [done |-> FALSE, parallel |-> FALSE, loki |-> Null, distances |-> <<>>,
     chromadb |-> Null, github |-> Null, web |-> Null, raised |-> FALSE,
     context |-> EnrichedContext]

\* None where a number is expected
NoValue == -1

\* nothing was normalized
NoNormalization ==
    LET none == [id |-> Null, affected_service |-> Null, severity |-> Null,
                 metrics |-> [error_rate |-> NoValue, latency_p95_ms |-> NoValue], logs |-> <<>>,
                 loki_logs |-> <<>>, app_logs |-> <<>>, k8s_events |-> <<>>,
                 git_commits |-> <<>>, labels |-> Null]
        out == [id |-> Null, affected_service |-> Null,
                metrics_summary |-> [error_rate |-> NoValue, latency_p95_ms |-> NoValue],
                logs |-> <<>>, k8s_events |-> <<>>, git_commits |-> <<>>,
                derived |-> [severity |-> Null, error_log_count |-> 0]]
    IN  [stage |-> 0, raw |-> none, out |-> out, again |-> out]

\* no request was recorded and can_make_request was not called
NoQuotaCall == [priority |-> Null, result |-> FALSE, time |-> 0, seen |-> 0]

QuotaInit ==
    /\ daily_usage = <<>>
    /\ hourly_usage = <<>>
    /\ request_history = <<>>
    /\ quotaNow = 0
    /\ quotaCall = NoQuotaCall
    /\ nQuotaTicks = 0

\* the components beside the message flow, untouched
DataInit ==
    /\ normalization = NoNormalization
    /\ gathering = NoGathering
    /\ plan_docs = <<>>
    /\ storeNow = 0
    /\ compilation = NoCompilation

UtilInit == retry = NoRetry /\ breaker = NoBreaker /\ history = NoHistory

ExtInit == QuotaInit /\ synthesis = NoSynthesis /\ DataInit /\ UtilInit

\* the state before any agent has taken a message, but for the bindings
\* and the Learner's clients
BaseInit ==
    /\ qApproved = <<>>
    /\ dlq = <<>>
    /\ resolutions = <<>>
    /\ allowed = DefaultAllowedCmds
    /\ seen_keys = {}
    /\ actor = Idle
    /\ planStore = [id \in PlanIds |-> IF id \in {"p3", "p6"} THEN "approved" ELSE "absent"]
    /\ procs = <<>>
    /\ fs = {}
    /\ dispatched = <<>>
    /\ settled = <<>>
    /\ nextTag = 1
    /\ nApproved = 0
    /\ nLost = 0
    /\ lastCall = NoCall
    /\ qNew = <<>>
    /\ qProposed = <<>>
    /\ held = {}
    /\ request_cache = <<>>
    /\ incidents = {}
    /\ proposed = <<>>
    /\ nPlannerRuns = 0
    /\ plannerLog = <<>>
    /\ now = 0
    /\ approvals = {}
    /\ qResolved = <<>>
    /\ collection = <<>>
    /\ learned = <<>>
    /\ nResolved = 0
    /\ clock = 0
    /\ ExtInit

ActorInit ==
    /\ BaseInit
    /\ bindings = CodeBindings
    /\ notion = FALSE
    /\ chroma = FALSE

(***************************************************************************)
(* Environment: an approved plan is published on plans/approved            *)
(***************************************************************************)
PublishApproved ==
    /\ nApproved < MaxApproved
    /\ \E p \in ApprovedPlans :
          qApproved' = Append(qApproved, [plan |-> p, redelivered |-> FALSE])
    /\ nApproved' = nApproved + 1
    /\ UNCHANGED <<dlq, resolutions, allowed, seen_keys, actor, planStore,
                   procs, fs, dispatched, settled, nextTag, nLost, lastCall, plannerVars, busVars, qResolved, learnerVars, extVars>>

(***************************************************************************)
(* Actor: process_plan                                                     *)
(***************************************************************************)
\* the end of `async with message.process()`: "ack" on a normal exit, "reject"
\* (requeue=False, so dead-lettered) on an exception; "lost" is an ack that
\* never reaches the broker, which then redelivers the message
Settle(msg, how) ==
    /\ qApproved' = IF how = "lost"
                    THEN <<[msg EXCEPT !.redelivered = TRUE]>> \o Tail(qApproved)
                    ELSE Tail(qApproved)
    /\ dlq' = IF how = "reject" THEN Append(dlq, msg) ELSE dlq
    /\ nLost' = IF how = "lost" THEN nLost + 1 ELSE nLost

SettleHows == IF nLost < MaxLost THEN {"ack", "lost"} ELSE {"ack"}

Ended(tag, msg, verdict, how, a, published) ==
    [tag |-> tag, plan |-> msg.plan, key |-> a.key, verdict |-> verdict, how |-> how,
     steps |-> a.steps, status |-> a.status, outputs |-> a.outputs,
     compiled |-> a.compiled, published |-> published]

\* line 96 with the check removed
SeenCheckNever(key, seen) == FALSE

\* line 96: idemp_key in app.state.seen_keys
SeenCheck(key, seen) == key \in seen

\* line 105 with >= for >
OverCeilingInclusive(risk, max_risk) == risk >= max_risk

\* line 105: risk > max_risk
OverCeiling(risk, max_risk) == risk > max_risk

\* str() of a float given in tenths: 9 is "0.9", 10 is "1.0"
FloatStr(tenths) == ToString(tenths \div 10) \o "." \o ToString(tenths % 10)

\* line 107: {"tool": "autonomy", "ok": False, "error": f"risk {risk} > max {max_risk}"}
AutonomyOutput(risk, max_risk) ==
    [shape |-> "autonomy", step |-> -1, tool |-> "autonomy", ok |-> FALSE,
     error |-> "risk " \o FloatStr(risk) \o " > max " \o FloatStr(max_risk),
     cwd |-> NoPath]

\* lines 112-128: the steps the loop will iterate over
CompileSteps(plan, llm) ==
    LET compiled == IF plan.instructions # <<>> /\ plan.steps = <<>>
                    THEN (LET c == nl_to_steps(plan.instructions, llm)
                          IN  IF c.raised THEN <<>> ELSE c.steps)
                    ELSE plan.steps
    IN  IF compiled = <<>>
        THEN fallback_steps_for_instructions(plan.instructions)
        ELSE compiled

\* the body is not JSON: JSONDecodeError is caught and the message is acked
ActorBadJson ==
    /\ actor.pc = "idle" /\ qApproved # <<>>
    /\ LET msg == Head(qApproved)
       IN  /\ ~msg.plan.json
           /\ Settle(msg, "ack")
           /\ settled' = Append(settled, Ended(nextTag, msg, "badjson", "ack", Idle, FALSE))
    /\ nextTag' = nextTag + 1
    /\ UNCHANGED <<resolutions, allowed, seen_keys, actor, planStore, procs, fs,
                   dispatched, nApproved, lastCall, plannerVars, busVars, qResolved, learnerVars, extVars>>

\* lines 96-98: the key was seen; return, and the message is acked
ActorDuplicate ==
    /\ actor.pc = "idle" /\ qApproved # <<>>
    /\ LET msg == Head(qApproved)
           key == IdempKey(msg.plan)
       IN  /\ msg.plan.json
           /\ SeenCheck(key, seen_keys)
           /\ \E how \in SettleHows :
                 /\ Settle(msg, how)
                 /\ settled' = Append(settled,
                       Ended(nextTag, msg, "duplicate", how, [Idle EXCEPT !.key = key], FALSE))
    /\ nextTag' = nextTag + 1
    /\ UNCHANGED <<resolutions, allowed, seen_keys, actor, planStore, procs, fs,
                   dispatched, nApproved, lastCall, plannerVars, busVars, qResolved, learnerVars, extVars>>

\* lines 99-128: the key is new; the autonomy gate, then compilation.  The
\* message stays unacknowledged at the head of the queue (prefetch 1).
ActorAccept ==
    /\ actor.pc = "idle" /\ qApproved # <<>>
    /\ LET msg  == Head(qApproved)
           plan == msg.plan
           key  == IdempKey(plan)
       IN  /\ plan.json
           /\ ~SeenCheck(key, seen_keys)
           /\ seen_keys' = seen_keys \cup {key}
           /\ IF OverCeiling(PlanRisk(plan), MaxAutonomyRisk)
              THEN actor' = [Idle EXCEPT !.pc = "finish", !.tag = nextTag, !.plan = plan,
                                         !.redelivered = msg.redelivered, !.key = key,
                                         !.status = "skipped",
                                         !.outputs = <<AutonomyOutput(PlanRisk(plan),
                                                                      MaxAutonomyRisk)>>]
              ELSE \E llm \in (IF plan.instructions # <<>> /\ plan.steps = <<>>
                                 THEN LlmAnswers ELSE {LlmRaise}) :
                      LET steps == CompileSteps(plan, llm)
                      IN  actor' = [Idle EXCEPT
                                      !.pc = IF steps = <<>> THEN "finish" ELSE "exec",
                                      !.tag = nextTag, !.plan = plan,
                                      !.redelivered = msg.redelivered, !.key = key,
                                      !.steps = steps, !.status = "resolved",
                                      !.compiled = (plan.steps = <<>>)]
    /\ nextTag' = nextTag + 1
    /\ UNCHANGED <<qApproved, dlq, resolutions, allowed, planStore, procs, fs,
                   dispatched, settled, nApproved, nLost, lastCall, plannerVars, busVars, qResolved, learnerVars, extVars>>

\* what the environment can do to the call of a tool: only the outcomes the
\* tool's function looks at vary
OutcomesFor(tool) ==
    [sh1  : IF tool \in {"shell.run", "kubectl.run", "docker.run", "compose.run"}
            THEN ShellOutcomes ELSE {"exit0"},
     sh2  : IF tool = "compose.run" THEN ShellOutcomes ELSE {"exit0"},
     http : IF tool = "http.request" THEN HttpOutcomes ELSE {"2xx"},
     fs   : IF tool = "fs.write" THEN FsOutcomes ELSE {"written"}]

\* the tools process_plan has a branch for (lines 134-151)
DispatchedTools == {"shell.run", "http.request", "fs.write", "compose.run",
                    "docker.run", "kubectl.run"}

\* lines 134-153: the tool function the step is dispatched to
Dispatch(allow, step, o) ==
    LET a == step.args
    IN  CASE step.tool = "shell.run"    -> shell_run(allow, a.cmd, a.hasCwd, a.cwd, o.sh1)
          [] step.tool = "http.request" -> http_request(a.hasCwd, o.http)
          [] step.tool = "fs.write"     -> fs_write(a.path, a.hasCwd, a.cwd, o.fs)
          [] step.tool = "compose.run"  -> compose(allow, a.hasCwd, a.cwd, o.sh1, o.sh2)
          [] step.tool = "docker.run"   -> docker(allow, a.hasCwd, a.cwd, o.sh1)
          [] step.tool = "kubectl.run"  -> kubectl(allow, a.hasCwd, a.cwd, o.sh1)
          [] OTHER -> Res(FALSE, "Unknown tool", NoPath, FALSE, <<>>, {})

\* lines 155-161 with the loop never stopping
StopsLoopNever(res) == FALSE

\* lines 155-161: a result that is not ok, or an exception, ends the loop
StopsLoop(res) == res.raised \/ ~res.ok

\* lines 130-161: one iteration of the loop over the steps
ActorStep ==
    /\ actor.pc = "exec"
    /\ \E o \in OutcomesFor(actor.steps[actor.idx + 1].tool) :
          LET step == actor.steps[actor.idx + 1]
              res  == Dispatch(allowed, step, o)
              out  == [shape |-> IF res.raised THEN "error" ELSE "result",
                       step |-> actor.idx, tool |-> step.tool, ok |-> res.ok,
                       error |-> res.error, cwd |-> res.cwd]
              stop == StopsLoop(res)
          IN  /\ actor' = [actor EXCEPT
                             !.outputs = Append(@, out),
                             !.idx = @ + 1,
                             !.status = IF res.raised \/ ~res.ok THEN "failed" ELSE @,
                             !.pc = IF stop \/ actor.idx + 1 = Len(actor.steps)
                                    THEN "finish" ELSE "exec"]
              /\ procs' = procs \o [i \in 1..Len(res.procs) |->
                                      [tag |-> actor.tag, cmd |-> res.procs[i].cmd,
                                       cwd |-> res.procs[i].cwd, ok |-> res.procs[i].ok]]
              /\ fs' = fs \cup res.fsops
              /\ dispatched' = Append(dispatched,
                                  [tag |-> actor.tag, key |-> actor.key, step |-> actor.idx,
                                   tool |-> step.tool, ran |-> step.tool \in DispatchedTools])
    /\ UNCHANGED <<qApproved, dlq, resolutions, allowed, seen_keys, planStore,
                   settled, nextTag, nApproved, nLost, lastCall, plannerVars, busVars, qResolved, learnerVars, extVars>>

\* lines 163-201: the plan store is updated when it is reachable, then the
\* Resolution is published; an exception of the publish ends the handler
\* through `raise`, and the message is rejected
ActorFinish ==
    /\ actor.pc = "finish"
    /\ LET msg   == Head(qApproved)
           plan  == actor.plan
           final == IF actor.status = "resolved" THEN "completed" ELSE "failed"
           id    == Get(plan.id, "N/A")
       IN  /\ \E mongoUp \in BOOLEAN :
                 planStore' = IF mongoUp /\ id \in PlanIds /\ planStore[id] # "absent"
                              THEN [planStore EXCEPT ![id] = final]
                              ELSE planStore
           /\ \/ \E how \in SettleHows :
                    /\ resolutions' = Append(resolutions,
                          [tag |-> actor.tag, key |-> actor.key,
                           routing_key |-> ResolutionKey,
                           incident_id |-> Get(plan.incident_id, "N/A"),
                           plan_id |-> id,
                           status |-> actor.status, outputs |-> actor.outputs])
                    /\ qResolved' =
                          IF "q.incidents.resolved" \in Route(bindings, "incidents", ResolutionKey)
                          THEN Append(qResolved,
                                      Resolution(Get(plan.incident_id, "N/A"), actor.status))
                          ELSE qResolved
                    /\ Settle(msg, how)
                    /\ settled' = Append(settled, Ended(actor.tag, msg, "processed", how, actor, TRUE))
              \/ /\ resolutions' = resolutions
                 /\ qResolved' = qResolved
                 /\ Settle(msg, "reject")
                 /\ settled' = Append(settled, Ended(actor.tag, msg, "processed", "reject", actor, FALSE))
    /\ actor' = Idle
    /\ UNCHANGED <<allowed, seen_keys, procs, fs, dispatched, nextTag, nApproved,
                   lastCall, plannerVars, busVars, learnerVars, extVars>>

ActorNext ==
    \/ PublishApproved
    \/ ActorBadJson
    \/ ActorDuplicate
    \/ ActorAccept
    \/ ActorStep
    \/ ActorFinish

(***************************************************************************)
(* Planner: process_incident_enhanced                                      *)
(***************************************************************************)
\* a plan as the model returns it: no status, title or key; the id and the
\* incident id only when the model chose to give them
LlmPlan(id, risk_level, steps) ==
    [Plan(id, Null, Null, NoRisk, steps, <<>>) EXCEPT !.risk_level = risk_level,
                                                        !.status = Null]

\* a step in the shape build_planner_prompt asks for, {action,target,cmd,notes}:
\* it has neither "tool" nor "args"
PromptStep == Step(Null, Args(Null, <<>>, FALSE, NoCwd, NoCwd))

\* what the model can answer to the Planner's prompt; raised is an API error
\* or a text holding no JSON object.  The last answer names an incident of
\* its own.
PlannerLlmAnswers ==
    { [raised |-> TRUE,  plan |-> BadJson],
      [raised |-> FALSE, plan |-> LlmPlan(Null, "medium", <<PromptStep>>)],
      [raised |-> FALSE, plan |-> LlmPlan("plan-b", "medium", <<KubectlStep(<<"get", "pods">>)>>)],
      [raised |-> FALSE, plan |-> LlmPlan(Null, "high", <<ToolStep("helm.run", FALSE, NoCwd)>>)],
      [raised |-> FALSE, plan |-> [LlmPlan(Null, "low", <<PromptStep>>)
                                      EXCEPT !.incident_id = "INC-9"]] }

\* PlannerEngine._create_fallback_plan: remediation_plan of two steps,
\* risk_score 3 and metadata, but no id, steps, instructions or risk_level
create_fallback_plan ==
    [LlmPlan(Null, Null, <<>>) EXCEPT
        !.remediation_plan = <<"Check service health", "Review logs">>,
        !.risk_score = 3,
        !.metadata = [plan_type |-> "fallback", error |-> "LLM generation failed",
                      enhanced |-> FALSE]]

\* PlannerEngine.generate_*_plan: every exception gives the fallback plan
generate_comprehensive_plan(llm) ==
    IF llm.raised THEN create_fallback_plan ELSE llm.plan

\* get_plan_type, main.py lines 228-237: the incident is not read
get_plan_type(incident_data) == "comprehensive"

\* the plan type of the handler
plan_type == "comprehensive"

CACHE_TTL_SECONDS == 300

\* seconds that pass between two deliveries
TimeSteps == {100, 300}

CacheDel(cache, key) == [k \in DOMAIN cache \ {key} |-> cache[k]]

CachePut(cache, key, entry) ==
    [k \in DOMAIN cache \cup {key} |-> IF k = key THEN entry ELSE cache[k]]

\* generate_plan_with_gemini: a cached plan younger than the TTL is returned
\* as it is and an older entry deleted; then the model is asked, and an
\* answer that is not JSON raises ValueError
generate_plan_with_gemini(incident_id, cache, current_time, llm) ==
    LET cached == incident_id \in DOMAIN cache
        fresh  == cached /\ current_time - cache[incident_id].timestamp < CACHE_TTL_SECONDS
        rest   == CacheDel(cache, incident_id)
    IN  IF fresh
        THEN [raised |-> FALSE, plan |-> cache[incident_id].plan, cache |-> cache,
              store |-> FALSE, called |-> FALSE]
        ELSE IF llm.raised
             THEN [raised |-> TRUE, plan |-> BadJson, cache |-> rest,
                   store |-> FALSE, called |-> TRUE]
             ELSE [raised |-> FALSE, plan |-> llm.plan, cache |-> rest,
                   store |-> TRUE, called |-> TRUE]

\* lines 656-660: plan.setdefault(...) for id, incident_id, status, title
EnsureRequiredFields(plan, incident_id) ==
    [plan EXCEPT !.id = Get(@, "plan_" \o incident_id),
                 !.incident_id = Get(@, incident_id),
                 !.status = Get(@, "proposed"),
                 !.title = Get(@, "Plan for Incident")]

\* lines 662-669: with enriched context, metadata.update(...) writes the
\* plan type of the incident and enhanced over what the plan had
EnhanceMetadata(plan) ==
    [plan EXCEPT !.metadata = [@ EXCEPT !.plan_type = plan_type, !.enhanced = TRUE]]

\* the plan a run of the handler arrives at: through the engine when enhanced
\* planning is on and context was gathered, else through the basic generation
PlannerPlan(incident_id, enhanced, cache, current_time, llm) ==
    IF enhanced
    THEN [raised |-> FALSE, cache |-> cache, called |-> TRUE,
          plan |-> EnhanceMetadata(
                      EnsureRequiredFields(generate_comprehensive_plan(llm), incident_id))]
    ELSE LET g == generate_plan_with_gemini(incident_id, cache, current_time, llm)
         IN  IF g.raised
             THEN [raised |-> TRUE, cache |-> g.cache, called |-> g.called, plan |-> BadJson]
             ELSE LET plan == EnsureRequiredFields(g.plan, incident_id)
                  IN  [raised |-> FALSE, plan |-> plan, called |-> g.called,
                       \* the cache holds the dict the setdefault calls change
                       cache |-> IF g.store
                                 THEN CachePut(g.cache, incident_id,
                                               [plan |-> plan, timestamp |-> current_time])
                                 ELSE g.cache]

\* a message of q.incidents.new: json tells whether the body is JSON
Incident(id, json) == [id |-> id, json |-> json, redelivered |-> FALSE, attempts |-> 0]

\* an incident is published on incidents/new, each id once
PublishIncident ==
    /\ \E id \in Incidents \ incidents :
          /\ qNew' = Append(qNew, Incident(id, TRUE))
          /\ incidents' = incidents \cup {id}
    /\ UNCHANGED <<actorVars, lastCall, qProposed, held, request_cache, proposed,
                   nPlannerRuns, plannerLog, now, busVars, qResolved, learnerVars, extVars>>

\* a body that is not JSON is published on incidents/new, once
PublishGarbled ==
    /\ "garbled" \notin incidents
    /\ qNew' = Append(qNew, Incident("garbled", FALSE))
    /\ incidents' = incidents \cup {"garbled"}
    /\ UNCHANGED <<actorVars, lastCall, qProposed, held, request_cache, proposed,
                   nPlannerRuns, plannerLog, now, busVars, qResolved, learnerVars, extVars>>

\* the record of one delivery to the Planner
Run(msg, enhanced, called, unparseable, outcome, cause, plan, time) ==
    [incident |-> msg.id, attempt |-> msg.attempts + 1, enhanced |-> enhanced,
     called |-> called, unparseable |-> unparseable, outcome |-> outcome,
     cause |-> cause, plan |-> plan, time |-> time]

\* lines 548-729, one delivery of an incident: the plan is generated, given
\* its required fields, published with key "proposed", saved to the plan
\* store when it is reachable, and the incident acknowledged; any exception
\* in the try block makes the handler nack with requeue.  json.loads(body)
\* stands before the try block: on a body that is not JSON the exception
\* leaves the callback with the message neither acked nor nacked, and the
\* broker hands it out again.  "lost" is an ack that never reaches the broker.
PlannerProcess ==
    /\ qNew # <<>>
    /\ nPlannerRuns < MaxPlannerRuns
    /\ nPlannerRuns' = nPlannerRuns + 1
    /\ \E dt \in TimeSteps :
       LET msg   == Head(qNew)
           t     == now + dt
           again == <<[msg EXCEPT !.redelivered = TRUE, !.attempts = @ + 1]>> \o Tail(qNew)
       IN  /\ now' = t
           /\ IF ~msg.json
              THEN /\ qNew' = again
                   /\ plannerLog' = Append(plannerLog,
                         Run(msg, FALSE, FALSE, FALSE, "crash", "body", BadJson, t))
                   /\ UNCHANGED <<request_cache, proposed, qProposed, planStore>>
              ELSE \E enhanced \in BOOLEAN, llm \in PlannerLlmAnswers :
                   LET g == PlannerPlan(msg.id, enhanced, request_cache, t, llm)
                       unparseable == g.called /\ llm.raised
                   IN  /\ request_cache' = g.cache
                       /\ IF g.raised
                          THEN /\ qNew' = again
                               /\ plannerLog' = Append(plannerLog,
                                     Run(msg, enhanced, g.called, unparseable,
                                         "nack", "generation", BadJson, t))
                               /\ UNCHANGED <<proposed, qProposed, planStore>>
                          ELSE \/ /\ proposed' = Append(proposed, g.plan)
                                  /\ qProposed' =
                                        IF "q.plans.proposed"
                                              \in Route(bindings, "plans", <<"proposed">>)
                                        THEN Append(qProposed, g.plan)
                                        ELSE qProposed
                                  /\ \E mongoUp \in BOOLEAN :
                                        planStore' =
                                           IF mongoUp
                                           THEN [planStore EXCEPT ![g.plan.id] = "proposed"]
                                           ELSE planStore
                                  /\ \E how \in {"ack", "lost"} :
                                        /\ qNew' = IF how = "ack" THEN Tail(qNew) ELSE again
                                        /\ plannerLog' = Append(plannerLog,
                                              Run(msg, enhanced, g.called, unparseable,
                                                  how, Null, g.plan, t))
                               \/ \* basic_publish raised
                                  /\ qNew' = again
                                  /\ plannerLog' = Append(plannerLog,
                                        Run(msg, enhanced, g.called, unparseable,
                                            "nack", "publish", BadJson, t))
                                  /\ UNCHANGED <<proposed, qProposed, planStore>>
    /\ UNCHANGED <<qApproved, dlq, resolutions, allowed, seen_keys, actor,
                   procs, fs, dispatched, settled, nextTag, nApproved, nLost,
                   lastCall, held, incidents, busVars, qResolved, learnerVars, extVars>>

PlannerNext == PublishIncident \/ PublishGarbled \/ PlannerProcess

(***************************************************************************)
(* Collaborator: the approval gate between plans/proposed and              *)
(* plans/approved                                                          *)
(***************************************************************************)
\* the plan republished with status approved
Approve(plan) == [plan |-> [plan EXCEPT !.status = "approved"], redelivered |-> FALSE]

\* the record of a republication: approved_by is set; event tells whether an
\* explicit approval came for the plan
Approval(plan, event) ==
    [plan_id |-> plan.id, risk_level |-> plan.risk_level, status |-> "approved",
     approved_by |-> IF event THEN "operator" ELSE "auto", event |-> event]

\* a proposed plan is taken: risk_level medium is approved at once, any other
\* plan is held for an explicit approval
CollaboratorReceive ==
    /\ qProposed # <<>>
    /\ LET plan == Head(qProposed)
       IN  IF plan.risk_level = "medium"
           THEN /\ qApproved' = Append(qApproved, Approve(plan))
                /\ approvals' = approvals \cup {Approval(plan, FALSE)}
                /\ held' = held
           ELSE /\ held' = held \cup {plan}
                /\ UNCHANGED <<qApproved, approvals>>
    /\ qProposed' = Tail(qProposed)
    /\ UNCHANGED <<dlq, resolutions, allowed, seen_keys, actor, planStore,
                   procs, fs, dispatched, settled, nextTag, nApproved, nLost,
                   lastCall, qNew, request_cache, incidents, proposed, nPlannerRuns,
                   plannerLog, now, bindings, qResolved, learnerVars, extVars>>

\* an explicit approval arrives for a held plan
CollaboratorApprove ==
    /\ \E plan \in held :
          /\ qApproved' = Append(qApproved, Approve(plan))
          /\ approvals' = approvals \cup {Approval(plan, TRUE)}
          /\ held' = held \ {plan}
    /\ UNCHANGED <<dlq, resolutions, allowed, seen_keys, actor, planStore,
                   procs, fs, dispatched, settled, nextTag, nApproved, nLost,
                   lastCall, qNew, qProposed, request_cache, incidents, proposed,
                   nPlannerRuns, plannerLog, now, bindings, qResolved, learnerVars, extVars>>

CollaboratorNext == CollaboratorReceive \/ CollaboratorApprove

(***************************************************************************)
(* The pipeline: incidents are the only input, and every approved plan     *)
(* comes from the Planner through the Collaborator                         *)
(***************************************************************************)
PipelineNext ==
    \/ PlannerNext
    \/ CollaboratorNext
    \/ ActorDuplicate
    \/ ActorAccept
    \/ ActorStep
    \/ ActorFinish

\* the pipeline's broker also has the gate's queue
PipelineInit ==
    /\ BaseInit
    /\ bindings = CodeBindings \cup GateBindings
    /\ notion = FALSE
    /\ chroma = FALSE

SpecPipeline == PipelineInit /\ [][PipelineNext]_vars

(***************************************************************************)
(* Learner: process_resolved_incident                                      *)
(***************************************************************************)
\* messages published on incidents/resolved
MaxResolved == 2

\* deliveries the Learner takes
MaxLearnerRuns == 3

\* what is published with key 'resolved': Resolutions in the Actor's shape,
\* incident records carrying "id" as test_learner.py publishes them, a JSON
\* array and a text that is not JSON
ResolvedBodies ==
    { Resolution("INC-1", "resolved"),
      Resolution("INC-1", "failed"),
      Body("object", "INC-1", Null, "resolved"),
      Body("object", "INC-2", "INC-2", "resolved"),
      Body("array", Null, Null, Null),
      Body("invalid", Null, Null, Null) }

PublishResolved ==
    /\ nResolved < MaxResolved
    /\ nResolved' = nResolved + 1
    /\ \E body \in ResolvedBodies :
          qResolved' = IF "q.incidents.resolved" \in Route(bindings, "incidents", <<"resolved">>)
                       THEN Append(qResolved, body)
                       ELSE qResolved
    /\ UNCHANGED <<actorVars, lastCall, plannerVars, busVars,
                   notion, chroma, collection, learned, clock, extVars>>

NotionOutcomes(client) == IF client THEN {"created", "failed"} ELSE {"skipped"}

\* the document call with no try block around the request to Notion
create_notion_post_mortem_uncaught(client, o) ==
    IF ~client THEN "skipped" ELSE IF o = "failed" THEN "raised" ELSE o

\* lines 126-188: skipped without a client; any exception of the request to
\* Notion is caught inside and printed
create_notion_post_mortem(client, o) ==
    IF ~client THEN "skipped" ELSE o

\* collection.add, or the embedding before it, can raise
ChromaOutcomes(client) == IF client THEN {"stored", "failed"} ELSE {"skipped"}

\* line 100: the id the entry is stored under
MemoryId(body, stamp) ==
    IF body.id # Null THEN body.id ELSE "unknown-" \o ToString(stamp)

\* lines 93-124: skipped without a client; collection.add stores a new id
\* and leaves an id it already holds as it was; any exception is caught inside
memorize_incident(client, coll, body, stamp, o) ==
    LET id == MemoryId(body, stamp)
    IN  IF ~client THEN [collection |-> coll, index |-> "skipped", id |-> Null]
        ELSE IF o = "failed" THEN [collection |-> coll, index |-> "failed", id |-> id]
        ELSE IF id \in DOMAIN coll THEN [collection |-> coll, index |-> "kept", id |-> id]
        ELSE [collection |->
                 [k \in DOMAIN coll \cup {id} |->
                     IF k = id THEN [of |-> Get(body.incident_id, body.id),
                                     status |-> body.status]
                     ELSE coll[k]],
              index |-> "added", id |-> id]

\* one delivery, lines 190-212: the body is parsed, documented and memorized
\* and the message acknowledged; on any exception it is acknowledged in the
\* except branch.  On a closed channel basic_ack raises, in the try block and
\* again in the except block, and the broker requeues the unacknowledged
\* message.
process_resolved_incident ==
    /\ qResolved # <<>>
    /\ clock < MaxLearnerRuns
    /\ clock' = clock + 1
    /\ LET body == Head(qResolved)
       IN  \E no \in NotionOutcomes(notion), co \in ChromaOutcomes(chroma),
              channel \in {"open", "closed"} :
              LET parsed == body.json = "object"
                  doc == IF parsed THEN create_notion_post_mortem(notion, no) ELSE "none"
                  \* an exception leaves the try block before memorize_incident
                  m   == IF parsed /\ doc # "raised"
                         THEN memorize_incident(chroma, collection, body, clock', co)
                         ELSE [collection |-> collection, index |-> "none", id |-> Null]
              IN  /\ collection' = m.collection
                  /\ learned' = Append(learned,
                        [body |-> body, notion |-> doc, index |-> m.index, id |-> m.id,
                         channel |-> channel,
                         acks  |-> IF channel = "open" THEN 1 ELSE 0,
                         calls |-> IF channel = "open" THEN 1
                                   ELSE IF parsed THEN 2 ELSE 1,
                         nacks |-> 0])
                  /\ qResolved' = IF channel = "open" THEN Tail(qResolved) ELSE qResolved
    /\ UNCHANGED <<actorVars, lastCall, plannerVars, busVars, notion, chroma, nResolved,
                   extVars>>

LearnerNext == PublishResolved \/ process_resolved_incident

\* the Learner with or without its two clients
LearnerInit ==
    /\ BaseInit
    /\ bindings = CodeBindings
    /\ notion \in BOOLEAN
    /\ chroma \in BOOLEAN

SpecLearner == LearnerInit /\ [][LearnerNext]_vars

(***************************************************************************)
(* Planner: QuotaManager (quota_manager.py)                                *)
(***************************************************************************)
\* QuotaManager(daily_limit, hourly_limit); the defaults are 50 and 10
daily_limit == 6
hourly_limit == 5

\* requests recorded, and advances of the clock
MaxQuotaRecords == 6
MaxQuotaTicks == 3

DayWindow == 86400
HourWindow == 3600

\* seconds the clock advances by
QuotaSteps == {1, 3599, 82800}

Priorities == {"high", "normal", "low"}

\* lines 112-118: a timestamp stays while it is younger than the window
clean_old_usage(usage, current_time, window) ==
    SelectSeq(usage, LAMBDA t : current_time - t < window)

\* the hourly test with > for >=
can_make_request_over(daily, hourly, priority) ==
    IF Len(daily) >= daily_limit THEN FALSE
    ELSE IF Len(hourly) > hourly_limit THEN FALSE
    ELSE IF priority = "low" /\ 10 * Len(daily) > 8 * daily_limit THEN FALSE
    ELSE TRUE

\* lines 38-50, on the cleaned lists; len > daily_limit * 0.8 in tenths
can_make_request(daily, hourly, priority) ==
    IF Len(daily) >= daily_limit THEN FALSE
    ELSE IF Len(hourly) >= hourly_limit THEN FALSE
    ELSE IF priority = "low" /\ 10 * Len(daily) > 8 * daily_limit THEN FALSE
    ELSE TRUE

\* can_make_request(priority): the lists are cleaned, then tested
QuotaCheck ==
    /\ \E priority \in Priorities :
          LET daily  == clean_old_usage(daily_usage, quotaNow, DayWindow)
              hourly == clean_old_usage(hourly_usage, quotaNow, HourWindow)
          IN  /\ daily_usage' = daily
              /\ hourly_usage' = hourly
              /\ quotaCall' = [priority |-> priority,
                               result |-> can_make_request(daily, hourly, priority),
                               time |-> quotaNow,
                               seen |-> Len(request_history)]
    /\ UNCHANGED <<actorVars, lastCall, plannerVars, busVars, qResolved, learnerVars,
                   request_history, quotaNow, nQuotaTicks, synthesis, dataVars, utilVars>>

\* get_quota_status, lines 73-88: the counts after the old records are
\* dropped
get_quota_status(daily, hourly, current_time) ==
    LET d == clean_old_usage(daily, current_time, DayWindow)
        h == clean_old_usage(hourly, current_time, HourWindow)
    IN  [daily_usage |-> Len(d), daily_limit |-> daily_limit,
         daily_remaining |-> daily_limit - Len(d),
         hourly_usage |-> Len(h), hourly_limit |-> hourly_limit,
         hourly_remaining |-> hourly_limit - Len(h)]

\* record_request, lines 61-71
QuotaRecord ==
    /\ Len(request_history) < MaxQuotaRecords
    /\ daily_usage' = Append(daily_usage, quotaNow)
    /\ hourly_usage' = Append(hourly_usage, quotaNow)
    /\ request_history' = Append(request_history, quotaNow)
    /\ UNCHANGED <<actorVars, lastCall, plannerVars, busVars, qResolved, learnerVars,
                   quotaNow, quotaCall, nQuotaTicks, synthesis, dataVars, utilVars>>

\* time passes
QuotaTick ==
    /\ nQuotaTicks < MaxQuotaTicks
    /\ nQuotaTicks' = nQuotaTicks + 1
    /\ \E dt \in QuotaSteps : quotaNow' = quotaNow + dt
    /\ UNCHANGED <<actorVars, lastCall, plannerVars, busVars, qResolved, learnerVars,
                   daily_usage, hourly_usage, request_history, quotaCall, synthesis, dataVars, utilVars>>

QuotaNext == QuotaCheck \/ QuotaRecord \/ QuotaTick

SpecQuota == ActorInit /\ [][QuotaNext]_vars

(***************************************************************************)
(* Planner: normalize_incident                                             *)
(***************************************************************************)
\* str.lower() on the words that occur in the model
Lower(word) ==
    CASE word = "Payment" -> "payment"
      [] word = "Fatal" -> "fatal"
      [] word = "ERROR" -> "error"
      [] word = "Restart" -> "restart"
      [] word = "Scale" -> "scale"
      [] OTHER -> word

LowerWords(words) == [i \in DOMAIN words |-> Lower(words[i])]

\* the first n elements of a list: seq[:n]
Take(seq, n) == SubSeq(seq, 1, IF Len(seq) < n THEN Len(seq) ELSE n)

\* a log entry as a dictionary: its keys ts, timestamp, message (the words
\* of the text, <<>> when the key is absent), level and source
LogDict(ts, timestamp, message, level, source) ==
    [ts |-> ts, timestamp |-> timestamp, message |-> message, level |-> level,
     source |-> source]

\* json.dumps(entry) of an entry without message, as words
JsonDumps(entry) == <<"level", entry.level>>

\* the keywords of _coerce_level that a lower-case word contains
Keywords(word) ==
    CASE word = "fatal" -> {"fatal"}
      [] word = "error" -> {"error"}
      [] word = "timeout" -> {"timeout"}
      [] word = "warning" -> {"warn", "warning"}
      [] OTHER -> {}

\* the keywords that occur in msg.lower(); "err " needs a word ending in
\* err with a space after it
KeywordsIn(msg) ==
    UNION { Keywords(Lower(msg[i])) : i \in DOMAIN msg }
    \cup (IF \E i \in 1..(Len(msg) - 1) : Lower(msg[i]) = "stderr" THEN {"err "} ELSE {})

\* main.py lines 294-302
coerce_level(msg, level) ==
    LET lvl == Lower(Get(level, ""))
    IN  IF KeywordsIn(msg) \cap {"exception", "panic", "fatal", "stacktrace", "error", "err "} # {}
        THEN "error"
        ELSE IF KeywordsIn(msg) \cap {"warn", "warning", "timeout", "retry"} # {} THEN "warn"
        ELSE IF lvl \in {"error", "warn", "info", "debug"} THEN lvl
        ELSE "info"

\* one LogEntry of the merged logs, main.py lines 316-326
LogEntry(entry, src_name) ==
    LET msg == IF entry.message # <<>> THEN entry.message ELSE JsonDumps(entry)
    IN  LogDict(NoValue, IF entry.ts # NoValue THEN entry.ts ELSE entry.timestamp, msg,
                coerce_level(msg, entry.level), Get(entry.source, src_name))

LogEntries(entries, src_name) == [i \in DOMAIN entries |-> LogEntry(entries[i], src_name)]

\* main.py lines 307-326
MergedLogs(raw) ==
    LogEntries(raw.logs, Null) \o LogEntries(raw.loki_logs, "loki")
       \o LogEntries(raw.app_logs, "app")

ErrorLogs(logs) == Cardinality({ i \in DOMAIN logs : logs[i].level = "error" })

\* the metrics of an incident that has none: every value is None
NoMetrics == [error_rate |-> NoValue, latency_p95_ms |-> NoValue]

\* the severity rule with > for >= in the latency test
derive_severity_over(original_severity, metrics, error_logs) ==
    IF original_severity \in {"low", "medium", "high"} THEN original_severity
    ELSE LET high_error == metrics.error_rate # NoValue /\ metrics.error_rate >= 50
             high_latency == metrics.latency_p95_ms # NoValue /\ metrics.latency_p95_ms > 800
         IN  IF high_error \/ high_latency \/ error_logs > 5 THEN "high"
             ELSE IF error_logs > 0 THEN "medium"
             ELSE "low"

\* main.py lines 351-362; error_rate in thousandths
derive_severity(original_severity, metrics, error_logs) ==
    IF original_severity \in {"low", "medium", "high"} THEN original_severity
    ELSE LET high_error == metrics.error_rate # NoValue /\ metrics.error_rate >= 50
             high_latency == metrics.latency_p95_ms # NoValue /\ metrics.latency_p95_ms >= 800
         IN  IF high_error \/ high_latency \/ error_logs > 5 THEN "high"
             ELSE IF error_logs > 0 THEN "medium"
             ELSE "low"

\* main.py lines 305-378
normalize_incident(raw) ==
    LET merged_logs == MergedLogs(raw)
        error_logs == ErrorLogs(merged_logs)
    IN  [id |-> raw.id,
         affected_service |-> raw.affected_service,
         metrics_summary |-> raw.metrics,
         logs |-> Take(merged_logs, 200),
         k8s_events |-> Take(raw.k8s_events, 100),
         git_commits |-> Take(raw.git_commits, 50),
         derived |-> [severity |-> derive_severity(raw.severity, raw.metrics, error_logs),
                      error_log_count |-> error_logs]]

\* IncidentModel: an absent list is read like an empty one, absent metrics
\* like an empty dictionary
IncidentModel(id, severity, metrics, logs, loki_logs, k8s_events, git_commits, labels) ==
    [id |-> id, affected_service |-> Null, severity |-> severity, metrics |-> metrics,
     logs |-> logs, loki_logs |-> loki_logs, app_logs |-> <<>>,
     k8s_events |-> k8s_events, git_commits |-> git_commits, labels |-> labels]

\* IncidentModel(**incoming) for a normalized record: the keys severity,
\* metrics, loki_logs, app_logs and labels are absent from it, and the keys
\* metrics_summary and derived are no fields of the model
FromNormalized(record) ==
    [id |-> record.id, affected_service |-> record.affected_service, severity |-> Null,
     metrics |-> NoMetrics, logs |-> record.logs, loki_logs |-> <<>>, app_logs |-> <<>>,
     k8s_events |-> record.k8s_events, git_commits |-> record.git_commits,
     labels |-> Null]

\* n log dictionaries with the time stamps from, from + 1, ...
LogRun(from, n, message, level) ==
    [i \in 1..n |-> LogDict(from + i - 1, NoValue, message, level, Null)]

\* n events or commits, told apart by their time stamps
Numbered(n) == [i \in 1..n |-> [timestamp |-> i]]

\* the logs and loki_logs of the incidents of the model
RawLogs ==
    { <<<<>>, <<>>>>,
      <<LogRun(1, 1, <<"started">>, "ERROR"), <<>>>>,
      <<LogRun(1, 5, <<"Fatal", "crash">>, Null), LogRun(6, 1, <<"started">>, "info")>>,
      <<LogRun(1, 6, <<"Fatal", "crash">>, Null), <<>>>>,
      <<LogRun(1, 1, <<"request", "timeout">>, "error") \o LogRun(2, 1, <<"started">>, Null)
           \o LogRun(3, 1, <<"started">>, "trace") \o LogRun(4, 1, <<>>, "debug"),
        LogRun(5, 1, <<"stderr", "closed">>, "info")>>,
      <<LogRun(1, 200, <<"started">>, "info"), LogRun(201, 1, <<"Fatal", "crash">>, Null)>>,
      <<LogRun(1, 201, <<"started">>, "info"), <<>>>> }

RawIncidents ==
    { IncidentModel("INC-1", sev, [error_rate |-> er, latency_p95_ms |-> lat],
                    lg[1], lg[2], Numbered(ne), Numbered(nc), labels) :
        sev \in {Null, "low", "medium", "high", "urgent"},
        er \in {NoValue, 49, 50}, lat \in {NoValue, 799, 800}, lg \in RawLogs,
        ne \in {0, 100, 101}, nc \in {0, 51}, labels \in {Null, "alertname"} }

NormalizeIncident ==
    /\ normalization.stage = 0
    /\ \E raw \in RawIncidents :
          normalization' = [stage |-> 1, raw |-> raw, out |-> normalize_incident(raw),
                            again |-> normalize_incident(raw)]
    /\ UNCHANGED <<actorVars, lastCall, plannerVars, busVars, qResolved, learnerVars,
                   quotaVars, synthesis, gathering, storeVars, compilation, utilVars>>

\* the normalized record is fed to normalize_incident again
NormalizeAgain ==
    /\ normalization.stage = 1
    /\ normalization' = [normalization EXCEPT !.stage = 2,
                            !.again = normalize_incident(FromNormalized(normalization.out))]
    /\ UNCHANGED <<actorVars, lastCall, plannerVars, busVars, qResolved, learnerVars,
                   quotaVars, synthesis, gathering, storeVars, compilation, utilVars>>

SpecNormalize == ActorInit /\ [][NormalizeIncident \/ NormalizeAgain]_vars

(***************************************************************************)
(* Planner: gather_all_context                                             *)
(***************************************************************************)
\* CONFIDENCE_THRESHOLD, in thousandths
CONFIDENCE_THRESHOLD == 800

\* similarity_threshold of the search for similar incidents, in hundredths
similarity_threshold == 70

\* what a source does when it is asked: "ok", or "fail" (its client raises)
SourceOutcomes == {"ok", "fail"}

\* the result of a coroutine: an exception, or a value
Returned(value) == [raised |-> FALSE, value |-> value]

\* gatherer.py lines 153-177 and 203-240: any exception is caught and an
\* empty list is returned
gather_list(outcome, entries) ==
    IF outcome = "fail" THEN Returned(<<>>) ELSE Returned(entries)

\* the number of results asked of the history index (limit=5)
n_results == 5

\* find_similar_incidents with the confidence not clamped to 1.0
find_similar_incidents_unclamped(outcome, distances) ==
    IF outcome = "fail" THEN Returned([similar |-> <<>>, confidence |-> 0])
    ELSE LET results == Take(distances, n_results)
             scores == [i \in DOMAIN results |-> 100 - results[i]]
             similar == SelectSeq(scores, LAMBDA x : x >= similarity_threshold)
             total == SumSeq(similar)
             best == Max(Range(similar))
             boosted == 10 * best + total \div Len(similar)
         IN  Returned([similar |-> similar,
                       confidence |-> IF similar = <<>> THEN 0
                                      ELSE IF Len(similar) = 1 THEN 10 * best
                                      ELSE boosted])

\* chromadb_client.py lines 60-131 under gatherer.py lines 179-201.
\* distances are those of the index's entries, nearest first, in hundredths;
\* the query returns the first n_results of them.  The result holds the
\* matches whose similarity (1 - distance) reaches the threshold, and the
\* confidence (in thousandths): the best similarity plus a tenth of the mean
\* when there are several matches, 1.0 at most
find_similar_incidents(outcome, distances) ==
    IF outcome = "fail" THEN Returned([similar |-> <<>>, confidence |-> 0])
    ELSE LET results == Take(distances, n_results)
             scores == [i \in DOMAIN results |-> 100 - results[i]]
             similar == SelectSeq(scores, LAMBDA x : x >= similarity_threshold)
             total == SumSeq(similar)
             best == Max(Range(similar))
             boosted == 10 * best + total \div Len(similar)
         IN  Returned([similar |-> similar,
                       confidence |-> IF similar = <<>> THEN 0
                                      ELSE IF Len(similar) = 1 THEN 10 * best
                                      ELSE IF boosted > 1000 THEN 1000 ELSE boosted])

\* the test with <= for <
should_trigger_web_search_le(internal_confidence, confidence_threshold, similar_incidents) ==
    IF similar_incidents = <<>> THEN TRUE
    ELSE IF internal_confidence <= confidence_threshold THEN TRUE
    ELSE FALSE

\* gatherer.py lines 263-292
should_trigger_web_search(internal_confidence, confidence_threshold, similar_incidents) ==
    IF similar_incidents = <<>> THEN TRUE
    ELSE IF internal_confidence < confidence_threshold THEN TRUE
    ELSE FALSE

\* the tags of the internal sources, in the order of the tasks
InternalSources == <<"loki", "chromadb", "github">>

\* gatherer.py lines 50-151.  In parallel mode the exceptions of the three
\* tasks are values of asyncio.gather; in sequential mode an exception of a
\* task would leave the function.
gather_all_context(parallel, loki, chromadb, distances, github, web) ==
    LET results == << gather_list(loki, <<"log">>),
                      find_similar_incidents(chromadb, distances),
                      gather_list(github, <<"commit">>) >>
        failed == { i \in 1..3 : results[i].raised }
        raises == ~parallel /\ failed # {}
        chromadb_result == IF results[2].raised THEN [similar |-> <<>>, confidence |-> 0]
                           ELSE results[2].value
        should_search_web ==
            should_trigger_web_search(chromadb_result.confidence, CONFIDENCE_THRESHOLD,
                                      chromadb_result.similar)
        searched == gather_list(web, <<"article">>)
    IN  [raised |-> raises,
         context |->
           [loki_logs |-> IF results[1].raised THEN <<>> ELSE results[1].value,
            similar_incidents |-> chromadb_result.similar,
            recent_commits |-> IF results[3].raised THEN <<>> ELSE results[3].value,
            web_knowledge |-> IF should_search_web /\ ~searched.raised THEN searched.value
                              ELSE <<>>,
            sources_used |-> (IF should_search_web /\ ~searched.raised
                              THEN <<"web_search">> ELSE <<>>) \o InternalSources,
            internal_confidence |-> chromadb_result.confidence,
            web_search_triggered |-> should_search_web,
            web_search_reason |-> IF ~should_search_web THEN "High internal confidence"
                                  ELSE IF searched.raised THEN "Web search failed"
                                  ELSE "Low internal confidence",
            gathering_errors |->
               { InternalSources[i] : i \in failed }
               \cup (IF should_search_web /\ searched.raised THEN {"web_search"} ELSE {})]]

\* the distances of the entries of the history index, nearest first; the
\* means of the qualifying similarities are whole hundredths
Distances ==
    { <<>>, <<38, 42>>, <<30>>, <<20>>, <<15>>, <<25, 27>>, <<5, 9>>, <<10, 40>>,
      <<5, 10, 15, 20, 25, 28>>, <<0, 30, 31>> }

GatherAllContext ==
    /\ \E parallel \in BOOLEAN, loki \in SourceOutcomes, chromadb \in SourceOutcomes,
          distances \in Distances, github \in SourceOutcomes, web \in SourceOutcomes :
          LET r == gather_all_context(parallel, loki, chromadb, distances, github, web)
          IN  gathering' = [done |-> TRUE, parallel |-> parallel, loki |-> loki,
                            distances |-> distances, chromadb |-> chromadb,
                            github |-> github, web |-> web, raised |-> r.raised,
                            context |-> r.context]
    /\ UNCHANGED <<actorVars, lastCall, plannerVars, busVars, qResolved, learnerVars,
                   quotaVars, synthesis, normalization, storeVars, compilation, utilVars>>

SpecGather == ActorInit /\ [][GatherAllContext]_vars

(***************************************************************************)
(* The persistent plan store                                               *)
(***************************************************************************)
MaxStoreWrites == 4

StorePlanIds == {"plan_INC-1", "plan_INC-2"}

\* PlanModel(...).to_dict() as the Planner saves it, main.py lines 702-712:
\* content stands for title, description, steps, risk_level and metadata
PlanModel(id, content) ==
    [id |-> id, content |-> content, status |-> "proposed", executed_by |-> Null]

\* the positions of the documents that match {'id': id}
Matching(docs, id) == { i \in DOMAIN docs : docs[i].id = id }

\* mongodb_client.py lines 103-146: replace_one(..., upsert=True) puts the
\* new document in the place of the first match, or inserts it
save_plan(docs, plan, utcnow) ==
    LET plan_doc == [id |-> plan.id, content |-> plan.content, status |-> plan.status,
                     executed_by |-> plan.executed_by, created_at |-> utcnow,
                     updated_at |-> utcnow]
    IN  IF Matching(docs, plan.id) = {} THEN Append(docs, plan_doc)
        ELSE [docs EXCEPT ![Min(Matching(docs, plan.id))] = plan_doc]

\* mongodb_client.py lines 198-232: update_one with $set on the first match
update_plan_status(docs, plan_id, status, executed_by, utcnow) ==
    IF Matching(docs, plan_id) = {} THEN docs
    ELSE [docs EXCEPT ![Min(Matching(docs, plan_id))] =
             [@ EXCEPT !.status = status, !.updated_at = utcnow,
                       !.executed_by = executed_by]]

\* the Planner saves the plan it published, main.py lines 690-722
PlannerSavePlan ==
    /\ storeNow < MaxStoreWrites
    /\ \E id \in StorePlanIds, content \in {"restart", "scale"} :
          plan_docs' = save_plan(plan_docs, PlanModel(id, content), storeNow)
    /\ storeNow' = storeNow + 1
    /\ UNCHANGED <<actorVars, lastCall, plannerVars, busVars, qResolved, learnerVars,
                   quotaVars, synthesis, normalization, gathering, compilation, utilVars>>

\* the Actor records the outcome of the plan it ran, actor/main.py lines 165-180
ActorUpdatePlanStatus ==
    /\ storeNow < MaxStoreWrites
    /\ \E id \in StorePlanIds, final_status \in {"completed", "failed"} :
          plan_docs' = update_plan_status(plan_docs, id, final_status, "actor_agent",
                                          storeNow)
    /\ storeNow' = storeNow + 1
    /\ UNCHANGED <<actorVars, lastCall, plannerVars, busVars, qResolved, learnerVars,
                   quotaVars, synthesis, normalization, gathering, compilation, utilVars>>

SpecStore == ActorInit /\ [][PlannerSavePlan \/ ActorUpdatePlanStatus]_vars

(***************************************************************************)
(* Actor: instructions that name a deployment and a namespace              *)
(***************************************************************************)
Deployments == {"hello", "web-app", "api"}

Namespaces == {"sandbox", "production"}

\* instructions to restart or scale a deployment, with what they name
Instruction(words, verb, deployment, namespace, replicas) ==
    [words |-> words, verb |-> verb, deployment |-> deployment,
     namespace |-> namespace, replicas |-> replicas]

Instructions ==
    { Instruction(<<"Restart", "the", dep, "deployment", "in", ns, "namespace">>,
                  "restart", dep, ns, Null) : dep \in Deployments, ns \in Namespaces }
    \cup
    { Instruction(<<"Restart", "deployment", dep, "in", ns, "namespace">>,
                  "restart", dep, ns, Null) : dep \in Deployments, ns \in Namespaces }
    \cup
    { Instruction(<<"Scale", f[1], "deployment", "to", f[3], "replicas", "in", f[2]>>,
                  "scale", f[1], f[2], f[3]) : f \in Deployments \X Namespaces \X Digits }
    \cup
    { Instruction(<<"Scale", "deployment", f[1], "to", f[3], "replicas", "in", f[2]>>,
                  "scale", f[1], f[2], f[3]) : f \in Deployments \X Namespaces \X Digits }

\* actor/main.py lines 112-128 for a plan that has instructions and no
\* steps; both compilers read the lower-case text
CompileInstructions ==
    /\ \E ins \in Instructions, llm \in LlmAnswers :
          LET plan == Plan("p1", "INC-1", Null, NoRisk, <<>>, LowerWords(ins.words))
          IN  compilation' = [done |-> TRUE, instructions |-> ins.words, verb |-> ins.verb,
                              deployment |-> ins.deployment, namespace |-> ins.namespace,
                              replicas |-> ins.replicas, llm |-> llm,
                              steps |-> CompileSteps(plan, llm)]
    /\ UNCHANGED <<actorVars, lastCall, plannerVars, busVars, qResolved, learnerVars,
                   quotaVars, synthesis, normalization, gathering, storeVars, utilVars>>

SpecCompile == ActorInit /\ [][CompileInstructions]_vars

(***************************************************************************)
(* Planner: retry utilities (utils/retry_handler.py)                       *)
(***************************************************************************)
\* the calls through the circuit breaker that are followed
MaxBreakerCalls == 7

\* the defaults of exponential_backoff; delays are milliseconds
max_retries == 3
base_delay == 1000
max_delay == 60000
backoff_factor == 2

\* 0.5 + random.random() * 0.5, in percent
JitterPercents == {50, 75, 99}

\* the attempts of a call that would succeed: schedule[k] says whether the
\* k-th attempt succeeds
Schedules == [1..(max_retries + 1) -> BOOLEAN]

\* a function decorated with exponential_backoff is called
RetryCall ==
    /\ retry.pc # "running"
    /\ \E schedule \in Schedules :
          retry' = [pc |-> "running", caller |-> "exponential_backoff",
                    schedule |-> schedule, attempt |-> 0, current_delay |-> base_delay,
                    delays |-> <<>>, result |-> 0]
    /\ UNCHANGED <<actorVars, lastCall, plannerVars, busVars, qResolved, learnerVars,
                   quotaVars, synthesis, dataVars, breaker, history>>

\* retry_handler.py lines 42-66: one pass of the loop over the attempts.
\* result is the number of the attempt whose value is returned.
RetryAttempt ==
    /\ retry.pc = "running"
    /\ IF retry.schedule[retry.attempt + 1]
       THEN retry' = [retry EXCEPT !.pc = "returned", !.attempt = @ + 1,
                                   !.result = retry.attempt + 1]
       ELSE IF retry.attempt < max_retries
            THEN \E jitter \in JitterPercents :
                    LET jittered == (retry.current_delay * jitter) \div 100
                        delay == IF jittered < max_delay THEN jittered ELSE max_delay
                    IN  retry' = [retry EXCEPT !.attempt = @ + 1,
                                     !.delays = Append(@, delay),
                                     !.current_delay = @ * backoff_factor]
            ELSE retry' = [retry EXCEPT !.pc = "raised", !.attempt = @ + 1]
    /\ UNCHANGED <<actorVars, lastCall, plannerVars, busVars, qResolved, learnerVars,
                   quotaVars, synthesis, dataVars, breaker, history>>

\* gatherer.py lines 153-177 (and 179-261 for the other sources): the
\* client is called once, not through a retry decorator; an exception gives
\* an empty result
GatherSourceCall ==
    /\ retry.pc # "running"
    /\ \E schedule \in Schedules :
          retry' = [pc |-> IF schedule[1] THEN "returned" ELSE "empty",
                    caller |-> "gatherer", schedule |-> schedule, attempt |-> 1,
                    current_delay |-> 0, delays |-> <<>>,
                    result |-> IF schedule[1] THEN 1 ELSE 0]
    /\ UNCHANGED <<actorVars, lastCall, plannerVars, busVars, qResolved, learnerVars,
                   quotaVars, synthesis, dataVars, breaker, history>>

\* the defaults of execute_with_circuit_breaker; times are seconds
failure_threshold == 5
recovery_timeout == 60

\* retry_handler.py lines 284-289: the state of the circuit, made anew by
\* every call
circuit_state == [failures |-> 0, last_failure_time |-> NoValue, state |-> "CLOSED"]

\* retry_handler.py lines 291-323: one call with the state `cs`, at
\* current_time, of a function that fails or not
execute_with_circuit_breaker(cs, current_time, fails) ==
    LET fast == cs.state = "OPEN" /\ current_time - cs.last_failure_time < recovery_timeout
        checked == IF cs.state = "OPEN" /\ ~fast THEN [cs EXCEPT !.state = "HALF_OPEN"] ELSE cs
        failures == checked.failures + 1
    IN  IF fast THEN [invoked |-> FALSE, raised |-> TRUE, circuit_state |-> cs]
        ELSE IF ~fails
        THEN [invoked |-> TRUE, raised |-> FALSE,
              circuit_state |-> [checked EXCEPT !.state = IF @ = "HALF_OPEN" THEN "CLOSED" ELSE @,
                                                !.failures = 0]]
        ELSE [invoked |-> TRUE, raised |-> TRUE,
              circuit_state |-> [failures |-> failures, last_failure_time |-> current_time,
                                 state |-> IF failures >= failure_threshold
                                           THEN "OPEN" ELSE checked.state]]

\* the seconds that pass between two calls
BreakerSteps == {1, 30, 60}

\* a function is called through execute_with_circuit_breaker.  The record
\* keeps the history the calls share in the world: the failures in a row
\* of the function so far and the time of the last of them.
BreakerCall ==
    /\ breaker.calls < MaxBreakerCalls
    /\ \E step \in BreakerSteps, fails \in BOOLEAN :
          LET current_time == breaker.time + step
              call == execute_with_circuit_breaker(circuit_state, current_time, fails)
          IN  breaker' = [calls |-> breaker.calls + 1, time |-> current_time,
                          before |-> breaker.consecutive,
                          since |-> current_time - breaker.last_failure,
                          invoked |-> call.invoked, raised |-> call.raised,
                          state |-> call.circuit_state.state,
                          consecutive |-> IF ~call.invoked THEN breaker.consecutive
                                          ELSE IF fails THEN breaker.consecutive + 1 ELSE 0,
                          last_failure |-> IF call.invoked /\ fails THEN current_time
                                           ELSE breaker.last_failure]
    /\ UNCHANGED <<actorVars, lastCall, plannerVars, busVars, qResolved, learnerVars,
                   quotaVars, synthesis, dataVars, retry, history>>

(***************************************************************************)
(* The history index: the Planner's collection CHROMADB_COLLECTION_NAME    *)
(* ("incident_history", planner/main.py line 132) and the Learner's        *)
(* collection "incidents" (learner/main.py line 24)                        *)
(***************************************************************************)
\* the plannings that are followed
MaxHistoryPlans == 4

HistoryIds == {"INC-1", "INC-2"}

\* chromadb_client.py lines 60-131 on the collection: the entry of the same
\* incident has the same search text, so distance 0; other entries may or
\* may not be near enough
similar_entries(coll, id, others, chromadbOk) ==
    IF chromadbOk THEN (coll \cap {id}) \cup (others \cap coll) ELSE {}

\* chromadb_client.py lines 157-194: collection.add under the incident's id;
\* an exception is printed
store_incident(coll, id, chromadbOk) == IF chromadbOk THEN coll \cup {id} ELSE coll

\* planner/main.py lines 581-729 as far as the index goes: the context is
\* gathered (596-617), the incident is stored for future reference
\* (671-676), then the plan is published (682-687) or the delivery is
\* requeued (726-729)
HistoryPlan ==
    /\ history.plans < MaxHistoryPlans
    /\ \E id \in HistoryIds, use_enhanced \in BOOLEAN, chromadbOk \in BOOLEAN,
          publishOk \in BOOLEAN, others \in SUBSET HistoryIds :
          LET enriched == use_enhanced
              similar  == IF enriched
                          THEN similar_entries(history.incident_history, id, others \ {id},
                                               chromadbOk)
                          ELSE {}
              stored   == IF enriched
                          THEN store_incident(history.incident_history, id, chromadbOk)
                          ELSE history.incident_history
          IN  history' = [history EXCEPT
                            !.incident_history = stored,
                            !.planned = IF publishOk THEN @ \cup {id} ELSE @,
                            !.last = [id |-> id, first |-> id \notin history.planned,
                                      similar |-> similar, stored |-> id \in stored,
                                      published |-> publishOk],
                            !.plans = @ + 1]
    /\ UNCHANGED <<actorVars, lastCall, plannerVars, busVars, qResolved, learnerVars,
                   quotaVars, synthesis, dataVars, retry, breaker>>

\* learner/main.py lines 93-124: the Learner memorizes the Resolution of a
\* planned incident in its own collection
HistoryMemorize ==
    /\ \E id \in history.planned \ history.resolved : \E chromaOk \in BOOLEAN :
          history' = [history EXCEPT
                        !.incidents = IF chromaOk THEN @ \cup {id} ELSE @,
                        !.resolved = @ \cup {id}]
    /\ UNCHANGED <<actorVars, lastCall, plannerVars, busVars, qResolved, learnerVars,
                   quotaVars, synthesis, dataVars, retry, breaker>>

SpecHistory == ActorInit /\ [][HistoryPlan \/ HistoryMemorize]_vars

SpecBreaker == ActorInit /\ [][BreakerCall]_vars

SpecRetry == ActorInit /\ [][RetryCall \/ RetryAttempt \/ GatherSourceCall]_vars

(***************************************************************************)
(* Planner: the choice between enhanced and basic synthesis                *)
(***************************************************************************)
\* `critical in service`: the words of critical occur in a row in service
ContainsWords(service, critical) ==
    \E k \in 0..(Len(service) - Len(critical)) :
       \A i \in DOMAIN critical : service[k + i] = critical[i]

critical_services ==
    { <<"user", "service">>, <<"payment", "service">>, <<"auth", "service">>,
      <<"api", "gateway">> }

\* quota_manager.py lines 138-172; service.lower() raises AttributeError when
\* affected_service is None
should_use_enhanced_planning_with_quota(permitted, incident) ==
    IF ~permitted THEN "no"
    ELSE IF incident.severity = "high" THEN "yes"
    ELSE IF incident.service = NoService THEN "raised"
    ELSE IF \E c \in critical_services : ContainsWords(LowerWords(incident.service), c)
    THEN "yes"
    ELSE IF incident.error_log_count > 3 THEN "yes"
    ELSE "no"

\* main.py lines 643-654: the function that generates the plan
GeneratedBy(path, type) ==
    IF path = "enhanced"
    THEN (IF type = "quick" THEN "generate_quick_plan"
          ELSE IF type = "deep_dive" THEN "generate_deep_dive_plan"
          ELSE "generate_comprehensive_plan")
    ELSE IF path = "basic" THEN "generate_plan_with_gemini"
    ELSE Null

SynthesisIncidents ==
    { SynthesisIncident(sv, sev, n) :
        sv \in { NoService, <<"checkout">>, <<"Payment", "service">>,
                 <<"user", "service", "canary">> },
        sev \in {"low", "medium", "high"},
        n \in {0, 3, 4} }

\* main.py lines 581-676 for one incident: the quota is asked, context is
\* gathered when the gatherer exists and enhanced planning is on (an
\* exception of the gathering leaves no context), the plan comes from the
\* engine when there are engine, context and enhanced planning, else from
\* generate_plan_with_gemini, and the request is recorded.  An exception in
\* the try block ends the delivery with a nack.
SynthesisDecide ==
    /\ Len(request_history) < MaxQuotaRecords
    /\ \E incident \in SynthesisIncidents, components \in BOOLEAN,
          gatherOk \in BOOLEAN, llmOk \in BOOLEAN :
          LET daily  == clean_old_usage(daily_usage, quotaNow, DayWindow)
              hourly == clean_old_usage(hourly_usage, quotaNow, HourWindow)
              permitted == can_make_request(daily, hourly, "normal")
              use  == should_use_enhanced_planning_with_quota(permitted, incident)
              \* get_context_priority calls service.lower() too; its
              \* AttributeError is caught with the gathering's exceptions
              enriched == /\ components /\ use = "yes"
                          /\ incident.service # NoService /\ gatherOk
              path == IF use = "raised" THEN "none"
                      ELSE IF components /\ enriched /\ use = "yes" THEN "enhanced"
                      ELSE "basic"
              published == path = "enhanced" \/ (path = "basic" /\ llmOk)
          IN  /\ synthesis' = [incident |-> incident, permitted |-> permitted,
                               engine |-> components, gathered |-> enriched,
                               llmOk |-> llmOk, use |-> use, path |-> path,
                               outcome |-> IF published THEN "published" ELSE "nack",
                               plan_type |-> get_plan_type(incident),
                               generated_by |-> GeneratedBy(path, get_plan_type(incident))]
              /\ quotaCall' = [priority |-> "normal", result |-> permitted,
                               time |-> quotaNow, seen |-> Len(request_history)]
              /\ daily_usage' = IF published THEN Append(daily, quotaNow) ELSE daily
              /\ hourly_usage' = IF published THEN Append(hourly, quotaNow) ELSE hourly
              /\ request_history' = IF published THEN Append(request_history, quotaNow)
                                    ELSE request_history
    /\ UNCHANGED <<actorVars, lastCall, plannerVars, busVars, qResolved, learnerVars,
                   quotaNow, nQuotaTicks, dataVars, utilVars>>

SpecSynthesis == ActorInit /\ [][QuotaRecord \/ SynthesisDecide]_vars

\* the Planner with the broker as the agents' code declares it
SpecPlanner == ActorInit /\ [][PlannerNext]_vars

Init == ActorInit

Next == ActorNext

Spec == Init /\ [][Next]_vars

(***************************************************************************)
(* The sandbox tools on their own: each step of SpecSandbox is one call of *)
(* a tool function, from a fresh sandbox, on arguments drawn from bounded  *)
(* sets of paths                                                           *)
(***************************************************************************)
\* longest cwd / path argument, in components
MaxPathLen == 3

Components == {"..", "a", "srv", "sandbox"}

RECURSIVE PartsUpTo(_)
PartsUpTo(n) ==
    IF n = 0 THEN {<<>>}
    ELSE LET shorter == PartsUpTo(n - 1)
         IN  shorter \cup {Append(q, c) : q \in {r \in shorter : Len(r) = n - 1}, c \in Components}

AllPaths == {[abs |-> b, parts |-> q] : b \in BOOLEAN, q \in PartsUpTo(MaxPathLen)}

FewPaths == {RelPath(<<"a">>), RelPath(<<"..">>), AbsPath(<<"srv", "sandbox">>), EscapingPath}

SandboxSteps ==
    {Step(t, Args(c, <<"x">>, h, d, NoCwd)) :
        t \in {"shell.run"}, c \in {"echo", "rm", "docker"}, h \in BOOLEAN, d \in AllPaths}
    \cup {Step(t, Args(Null, <<"x">>, h, d, NoCwd)) :
        t \in {"kubectl.run", "compose.run", "docker.run", "http.request", "helm.run", Null},
        h \in BOOLEAN, d \in AllPaths}
    \cup {Step("fs.write", Args(Null, <<>>, h, d, f)) :
        h \in BOOLEAN, d \in FewPaths, f \in AllPaths \cup {EscapingPath}}

SandboxInit ==
    /\ qApproved = <<>>
    /\ dlq = <<>>
    /\ resolutions = <<>>
    /\ allowed \in AllowedConfigs
    /\ seen_keys = {}
    /\ actor = Idle
    /\ planStore = [id \in PlanIds |-> "absent"]
    /\ procs = <<>>
    /\ fs = {}
    /\ dispatched = <<>>
    /\ settled = <<>>
    /\ nextTag = 1
    /\ nApproved = 0
    /\ nLost = 0
    /\ lastCall = NoCall
    /\ qNew = <<>>
    /\ qProposed = <<>>
    /\ held = {}
    /\ request_cache = <<>>
    /\ incidents = {}
    /\ proposed = <<>>
    /\ nPlannerRuns = 0
    /\ plannerLog = <<>>
    /\ now = 0
    /\ bindings = CodeBindings
    /\ approvals = {}
    /\ qResolved = <<>>
    /\ notion = FALSE
    /\ chroma = FALSE
    /\ collection = <<>>
    /\ learned = <<>>
    /\ nResolved = 0
    /\ clock = 0
    /\ ExtInit

SandboxCall ==
    /\ lastCall = NoCall
    /\ \E step \in SandboxSteps : \E o \in OutcomesFor(step.tool) :
          LET res == Dispatch(allowed, step, o)
          IN  /\ lastCall' = [step |-> step, res |-> res]
              /\ procs' = [i \in 1..Len(res.procs) |->
                             [tag |-> 0, cmd |-> res.procs[i].cmd, cwd |-> res.procs[i].cwd,
                              ok |-> res.procs[i].ok]]
              /\ fs' = res.fsops
    /\ UNCHANGED <<qApproved, dlq, resolutions, allowed, seen_keys, actor, planStore,
                   dispatched, settled, nextTag, nApproved, nLost, plannerVars,
                   busVars, qResolved, learnerVars, extVars>>

SpecSandbox == SandboxInit /\ [][SandboxCall]_vars

(***************************************************************************)
(* Properties of the Actor                                                 *)
(***************************************************************************)
\* the deliveries that got past the seen-set check, ended or in flight
PassedTags(k) ==
    {e.tag : e \in {x \in Range(settled) : x.verdict = "processed" /\ x.key = k}}
    \cup (IF actor.pc # "idle" /\ actor.key = k THEN {actor.tag} ELSE {})

ResolutionsFor(k) == {i \in DOMAIN resolutions : resolutions[i].key = k}

ResolutionsOf(tag) == {i \in DOMAIN resolutions : resolutions[i].tag = tag}

\* the deliveries process_plan went through the gates for: ended ones and
\* the one in flight, as [tag, plan, steps, status, outputs, compiled]
View(x) == [tag |-> x.tag, plan |-> x.plan, key |-> x.key, steps |-> x.steps,
            status |-> x.status, outputs |-> x.outputs, compiled |-> x.compiled]

Processed ==
    {View(e) : e \in {x \in Range(settled) : x.verdict = "processed"}}
    \cup (IF actor.pc # "idle" THEN {View(actor)} ELSE {})

\* C2: steps of plans that share an idempotency key are dispatched during at
\* most one delivery, and at most one delivery per key passes the seen-set check
C2_OneExecutionPerKey ==
    /\ \A k \in seen_keys : Cardinality(PassedTags(k)) <= 1
    /\ \A d1, d2 \in Range(dispatched) : d1.key = d2.key => d1.tag = d2.tag
    /\ \A d \in Range(dispatched) : d.tag \in PassedTags(d.key)

\* two different plans with one key were delivered; the first ran its steps,
\* the second was dropped
C2_Witness ==
    \E e1, e2 \in Range(settled) :
       /\ e1.key = e2.key /\ e1.plan # e2.plan /\ e1.tag < e2.tag
       /\ e1.verdict = "processed" /\ e2.verdict = "duplicate"
       /\ \E d \in Range(dispatched) : d.tag = e1.tag /\ d.ran

\* a delivery is taken whose key is in the seen-set
DuplicateDelivered ==
    /\ actor.pc = "idle" /\ qApproved # <<>>
    /\ Head(qApproved).plan.json
    /\ IdempKey(Head(qApproved).plan) \in seen_keys
    /\ nextTag' # nextTag

\* C3: a delivery whose key is in the seen-set is acknowledged and nothing
\* else happens: no tool runs, the plan store, the published Resolutions and
\* the seen-set are unchanged; and a key that was processed once and then
\* delivered again has exactly one Resolution
C3_DuplicateDropped ==
    /\ [][DuplicateDelivered =>
            /\ UNCHANGED <<resolutions, planStore, seen_keys, procs, fs, dispatched,
                           actor, dlq>>
            /\ settled'[Len(settled')].how \in {"ack", "lost"}
            /\ settled'[Len(settled')].verdict = "duplicate"
            /\ \/ qApproved' = Tail(qApproved)
               \/ settled'[Len(settled')].how = "lost"]_vars
    /\ [](\A e1, e2 \in Range(settled) :
             (e1.key = e2.key /\ e1.verdict = "processed" /\ e2.verdict = "duplicate")
                => Cardinality(ResolutionsFor(e1.key)) = 1)

OverRisk(plan) == PlanRisk(plan) > MaxAutonomyRisk

OutputOk(out) == out.shape = "result" /\ out.ok

\* C5: steps are dispatched in list order, one output per dispatched step
\* with indices 0,1,2,...; the first step that is not ok (or raises) is the
\* last one dispatched and makes the status failed; the status is resolved
\* only if every step was dispatched and was ok
C5_SequentialSteps ==
    \A v \in Processed :
       ~OverRisk(v.plan) =>
          LET outs == v.outputs
              mine == SelectSeq(dispatched, LAMBDA d : d.tag = v.tag)
          IN  /\ Len(outs) <= Len(v.steps)
              /\ Len(mine) = Len(outs)
              /\ \A i \in DOMAIN outs :
                    /\ outs[i].step = i - 1
                    /\ outs[i].tool = v.steps[i].tool
                    /\ mine[i].step = i - 1 /\ mine[i].tool = v.steps[i].tool
                    /\ i < Len(outs) => OutputOk(outs[i])
              /\ v.status \in {"resolved", "failed"}
              /\ v.status = "failed" <=> (outs # <<>> /\ ~OutputOk(outs[Len(outs)]))
              /\ (v.status = "resolved" /\ (actor.pc = "idle" \/ actor.tag # v.tag \/ actor.pc = "finish"))
                    => (Len(outs) = Len(v.steps) /\ \A i \in DOMAIN outs : OutputOk(outs[i]))

\* a two-step plan stopped at its first step and was published failed, and a
\* two-step plan ran both steps and was published resolved
C5_Witness ==
    /\ \E i \in DOMAIN resolutions : \E e \in Range(settled) :
          /\ e.tag = resolutions[i].tag /\ Len(e.steps) = 2
          /\ resolutions[i].status = "failed" /\ Len(resolutions[i].outputs) = 1
    /\ \E i \in DOMAIN resolutions : \E e \in Range(settled) :
          /\ e.tag = resolutions[i].tag /\ Len(e.steps) = 2
          /\ resolutions[i].status = "resolved" /\ Len(resolutions[i].outputs) = 2

\* C6: an approved plan without steps for which neither compilation nor the
\* fallback yields a step is marked failed; its Resolution is never resolved
\* with empty outputs
C6_NoStepsIsFailed ==
    \A e \in Range(settled) :
       (e.verdict = "processed" /\ ~OverRisk(e.plan) /\ e.plan.steps = <<>> /\ e.steps = <<>>)
          => /\ e.status = "failed"
             /\ \A i \in ResolutionsOf(e.tag) :
                   ~(resolutions[i].status = "resolved" /\ resolutions[i].outputs = <<>>)

\* C7: a tool function runs only for the five allow-listed tools; for any
\* other tool value nothing is started, the output is a result that is not ok
\* with an "Unknown tool" error, and the plan is failed
C7_OnlyAllowListedToolsRun ==
    \A v \in Processed :
       \A i \in DOMAIN v.outputs :
          (v.outputs[i].tool \notin ALLOWED_TOOLS \cup {"autonomy"})
             => /\ v.outputs[i].shape = "result" /\ ~v.outputs[i].ok
                /\ v.outputs[i].error = "Unknown tool"
                /\ v.status = "failed"
                /\ \A d \in Range(dispatched) :
                      (d.tag = v.tag /\ d.step = v.outputs[i].step) => ~d.ran

(***************************************************************************)
(* Properties of the pipeline                                              *)
(***************************************************************************)
ResolutionsOfIncident(id) == {i \in DOMAIN resolutions : resolutions[i].incident_id = id}

\* nothing is queued, held or in progress anywhere between incidents/new and
\* incidents/resolved
Quiescent ==
    /\ qNew = <<>> /\ qProposed = <<>> /\ held = {} /\ qApproved = <<>>
    /\ actor.pc = "idle"

\* C1: every incident published once with key "new" gets exactly one
\* Resolution: never two, its status is resolved, failed or skipped, and none
\* is missing once the pipeline has nothing left to do for the incident
C1_ExactlyOneResolution ==
    /\ \A id \in incidents : Cardinality(ResolutionsOfIncident(id)) <= 1
    /\ \A i \in DOMAIN resolutions : resolutions[i].status \in {"resolved", "failed", "skipped"}
    /\ Quiescent => \A id \in incidents : Cardinality(ResolutionsOfIncident(id)) = 1

\* C8: every step of every plan published on plans/proposed, and every step
\* instruction compilation produced at the Actor, has an allow-listed tool;
\* no step with another tool is dispatched to a tool function
C8_OnlyAllowListedToolsEmitted ==
    /\ \A i \in DOMAIN proposed :
          \A j \in DOMAIN proposed[i].steps : proposed[i].steps[j].tool \in ALLOWED_TOOLS
    /\ \A v \in Processed :
          v.compiled => \A j \in DOMAIN v.steps : v.steps[j].tool \in ALLOWED_TOOLS
    /\ \A d \in Range(dispatched) : d.ran => d.tool \in ALLOWED_TOOLS

(***************************************************************************)
(* Properties of the sandbox                                               *)
(***************************************************************************)
\* where a cwd argument points, by the path semantics alone
CwdTarget(a) ==
    IF ~a.hasCwd \/ (~a.cwd.abs /\ a.cwd.parts = <<>>) THEN SandboxBase
    ELSE Normalize(Join(SandboxBase, a.cwd))

\* where fs.write's file lands
FileTarget(a) == Normalize(Join(CwdTarget(a), a.path))

ShellTools == {"shell.run", "kubectl.run", "compose.run", "docker.run"}

\* C9: fs.write never writes outside the sandbox root: when the resolved
\* target file is not under the root, nothing is created, the step output is
\* not ok with an "escapes sandbox" error, and the plan is failed
C9_FsWriteStaysInSandbox ==
    /\ \A x \in fs : InsideBase(x.path)
    /\ \A v \in Processed :
          \A i \in DOMAIN v.outputs :
             (v.outputs[i].tool = "fs.write" /\ ~InsideBase(FileTarget(v.steps[i].args)))
                => /\ ~v.outputs[i].ok
                   /\ v.outputs[i].error = "escapes sandbox"
                   /\ v.status = "failed"

\* C10: a subprocess is started only with a working directory inside the
\* sandbox root; a cwd that resolves outside gives a result that is not ok,
\* with an error, and no subprocess; every result carrying a cwd names a path
\* inside the root; also through kubectl.run, compose.run and docker.run
C10_ShellRunStaysInSandbox ==
    /\ \A q \in Range(procs) : InsideBase(q.cwd)
    /\ lastCall.res.cwd # NoPath => InsideBase(lastCall.res.cwd)
    /\ (lastCall.step.tool \in ShellTools /\ ~InsideBase(CwdTarget(lastCall.step.args)))
          => /\ ~lastCall.res.ok /\ lastCall.res.error # Null
             /\ ~lastCall.res.raised
             /\ procs = <<>>
    /\ lastCall # NoCall => \A q \in Range(procs) : q.cwd = CwdTarget(lastCall.step.args)

\* compose.run was called with a relative cwd that climbs out of the root
\* while docker is allow-listed, and was refused without starting anything
C10_Witness ==
    /\ lastCall.step.tool = "compose.run"
    /\ allowed = DefaultAllowedCmds \cup {"docker", "docker-compose"}
    /\ ~lastCall.step.args.cwd.abs
    /\ ~InsideBase(CwdTarget(lastCall.step.args))
    /\ lastCall.res.error = "escapes sandbox"
    /\ procs = <<>>

\* C11: a subprocess is started only for an executable of the allow-list;
\* shell.run with any other cmd is not ok and starts nothing; kubectl.run and
\* compose.run are held to the same list, so compose.run is ok only if docker
\* or docker-compose is listed, and docker-compose is started only after a
\* docker attempt that was refused or not ok
C11_OnlyAllowListedCommands ==
    LET tool == lastCall.step.tool
        res  == lastCall.res
    IN  /\ \A q \in Range(procs) : q.cmd \in allowed
        /\ (tool = "shell.run" /\ lastCall.step.args.cmd \notin allowed)
              => (~res.ok /\ ~res.raised /\ procs = <<>>)
        /\ (tool = "kubectl.run" /\ "kubectl" \notin allowed)
              => (~res.ok /\ ~res.raised /\ procs = <<>>)
        /\ tool = "kubectl.run" => \A q \in Range(procs) : q.cmd = "kubectl"
        /\ tool = "compose.run" =>
              /\ res.ok => ("docker" \in allowed \/ "docker-compose" \in allowed)
              /\ \A q \in Range(procs) : q.cmd \in {"docker", "docker-compose"}
              /\ \A i, j \in DOMAIN procs :
                    (procs[i].cmd = "docker" /\ procs[j].cmd = "docker-compose")
                       => (i < j /\ ~procs[i].ok)
              /\ Len(procs) <= 2
              /\ res.ok => (procs # <<>> /\ procs[Len(procs)].ok)

\* compose.run with both executables listed: docker compose ran and failed,
\* then docker-compose ran and succeeded
C11_Witness ==
    /\ lastCall.step.tool = "compose.run"
    /\ lastCall.res.ok
    /\ Len(procs) = 2
    /\ procs[1].cmd = "docker" /\ ~procs[1].ok
    /\ procs[2].cmd = "docker-compose" /\ procs[2].ok

(***************************************************************************)
(* Properties of the approval gate and of the routing                      *)
(***************************************************************************)
\* the Planner has taken and acknowledged every incident
PlannerDone == incidents = Incidents /\ qNew = <<>>

\* C12: once the Planner has nothing left to do, every plan it published
\* with risk_level medium has been republished on plans/approved with status
\* approved and approved_by set, with no approval event; and a plan of any
\* other risk level is republished only through an explicit approval event
C12_MediumAutoApproved ==
    /\ PlannerDone =>
          \A i \in DOMAIN proposed :
             proposed[i].risk_level = "medium" =>
                \E a \in approvals : /\ a.plan_id = proposed[i].id
                                     /\ a.status = "approved"
                                     /\ a.approved_by # Null
                                     /\ ~a.event
    /\ \A a \in approvals : a.risk_level # "medium" => a.event

\* C13: every Resolution the Actor has published on the incidents exchange
\* was delivered to q.incidents.resolved, the queue the Learner consumes;
\* none was dropped by the exchange as unroutable
C13_ResolutionsRouted ==
    /\ Len(qResolved) = Len(resolutions)
    /\ \A i \in DOMAIN resolutions :
          /\ "q.incidents.resolved" \in Route(bindings, "incidents", resolutions[i].routing_key)
          /\ i \in DOMAIN qResolved
          /\ qResolved[i] = Resolution(resolutions[i].incident_id, resolutions[i].status)

(***************************************************************************)
(* Properties of the Learner                                               *)
(***************************************************************************)
\* C14: after a Resolution with status resolved for incident X was processed
\* and the index updated, the collection has an entry under the id X, and
\* exactly one entry for X however many Resolutions for X were processed
C14_HistoryKeyedByIncident ==
    \A i \in DOMAIN learned :
       LET l == learned[i]
           X == l.body.incident_id
       IN  (/\ l.body.json = "object"
            /\ l.body.status = "resolved"
            /\ X # Null
            /\ l.index \in {"added", "kept"})
           => /\ X \in DOMAIN collection
              /\ Cardinality({k \in DOMAIN collection : collection[k].of = X}) = 1

\* C15: for every delivery, a failure of the document store does not keep
\* the index update from being attempted; on an open channel basic_ack is
\* called exactly once and the message leaves the queue, whether the parse,
\* the document store or the index update failed or not; the Learner never
\* rejects or requeues
C15_AckOnceNeverRequeue ==
    \A i \in DOMAIN learned :
       LET l == learned[i]
       IN  /\ l.nacks = 0
           /\ l.channel = "open" => (l.acks = 1 /\ l.calls = 1)
           /\ l.notion # "raised"
           /\ (l.body.json = "object" /\ l.notion = "failed") =>
                 l.index \in (IF chroma THEN {"added", "kept", "failed"} ELSE {"skipped"})
           /\ l.body.json = "object" => l.index # "none"
           /\ l.body.json # "object" => (l.notion = "none" /\ l.index = "none")

C15_Witness ==
    /\ \E i \in DOMAIN learned :
          /\ learned[i].notion = "failed"
          /\ learned[i].index = "added"
          /\ learned[i].acks = 1
    /\ \E i \in DOMAIN learned :
          /\ learned[i].body.json = "invalid"
          /\ learned[i].acks = 1
    /\ qResolved = <<>>

(***************************************************************************)
(* Properties of the Planner                                               *)
(***************************************************************************)
\* the deliveries in which the Planner published a plan
Published(r) == r.outcome \in {"ack", "lost"}

\* the deliveries of a message that ended without a plan
Failures(id) ==
    {i \in DOMAIN plannerLog : plannerLog[i].incident = id /\ ~Published(plannerLog[i])}

\* C16: each delivery the Planner processes successfully publishes exactly
\* one plan on plans/proposed, and every published plan has id, incident_id,
\* title, risk_level, status proposed, and steps or instructions
C16_RequiredFields ==
    /\ Len(proposed) = Cardinality({i \in DOMAIN plannerLog : Published(plannerLog[i])})
    /\ \A i \in DOMAIN proposed :
          LET plan == proposed[i]
          IN  /\ plan.id # Null
              /\ plan.incident_id # Null
              /\ plan.title # Null
              /\ plan.risk_level # Null
              /\ plan.status = "proposed"
              /\ (plan.steps # <<>> \/ plan.instructions # <<>>)

\* C17: the incident_id of every published plan is the id of an incident
\* published on incidents/new, the one whose delivery produced the plan
C17_PlanReferencesIncident ==
    /\ \A i \in DOMAIN proposed : proposed[i].incident_id \in incidents
    /\ \A i \in DOMAIN plannerLog :
          Published(plannerLog[i]) => plannerLog[i].plan.incident_id = plannerLog[i].incident

\* C18: a delivery that fails is nacked with requeue and publishes no plan,
\* and a message is not handed out again once it has failed as many times as
\* the Planner takes deliveries at all: it has left q.incidents.new
C18_NackThenDeadLetter ==
    /\ \A i \in DOMAIN plannerLog :
          ~Published(plannerLog[i]) =>
             (plannerLog[i].outcome = "nack" /\ plannerLog[i].plan = BadJson)
    /\ Len(proposed) = Cardinality({i \in DOMAIN plannerLog : Published(plannerLog[i])})
    /\ \A i \in DOMAIN qNew : Cardinality(Failures(qNew[i].id)) < MaxPlannerRuns

\* the plan has the two diagnostic steps, health check then log review
TwoDiagnosticSteps(plan) ==
    \/ plan.remediation_plan = <<"Check service health", "Review logs">>
    \/ Len(plan.steps) = 2

\* C19: whenever the model's output cannot be parsed, in the enhanced and in
\* the basic path, the delivery is not failed for it and publishes the
\* fallback plan: two diagnostic steps, risk_level low, plan_type fallback
\* and an error note in the metadata
C19_FallbackPlan ==
    \A i \in DOMAIN plannerLog :
       LET r == plannerLog[i]
       IN  r.unparseable =>
              /\ r.cause # "generation"
              /\ Published(r) =>
                    /\ TwoDiagnosticSteps(r.plan)
                    /\ r.plan.risk_level = "low"
                    /\ r.plan.metadata.plan_type = "fallback"
                    /\ r.plan.metadata.error # Null

\* the deliveries of the incident of delivery j, before j, in which a plan
\* was computed by the model
Computed(j) ==
    {i \in 1..(j - 1) : /\ plannerLog[i].incident = plannerLog[j].incident
                        /\ plannerLog[i].called
                        /\ ~plannerLog[i].unparseable
                        /\ Published(plannerLog[i])}

\* C20: a delivery of an incident less than CACHE_TTL_SECONDS after a plan
\* was computed for it, by either path, does not call the model and
\* publishes a plan equal to that one; a delivery later than that calls the
\* model again
C20_CachedReplay ==
    \A j \in DOMAIN plannerLog :
       (plannerLog[j].outcome # "crash" /\ Computed(j) # {}) =>
          LET i == CHOOSE k \in Computed(j) : \A l \in Computed(j) : l <= k
              age == plannerLog[j].time - plannerLog[i].time
          IN  IF age < CACHE_TTL_SECONDS
              THEN /\ ~plannerLog[j].called
                   /\ Published(plannerLog[j]) => plannerLog[j].plan = plannerLog[i].plan
              ELSE plannerLog[j].called

(***************************************************************************)
(* Properties of the quota manager                                         *)
(***************************************************************************)
\* the requests among the first n recorded that are younger than the window
\* at the time
CountWithin(n, time, window) ==
    Cardinality({i \in 1..n : time - request_history[i] < window})

\* C21: can_make_request returns false exactly when the requests of the last
\* 86400 seconds are at least the daily limit, or those of the last 3600
\* seconds at least the hourly limit, or the priority is low and the daily
\* count is over 80% of the daily limit; a request 3600 (86400) seconds old
\* no longer counts for the hour (day)
C21_QuotaWindows ==
    quotaCall.priority # Null =>
       LET day  == CountWithin(quotaCall.seen, quotaCall.time, DayWindow)
           hour == CountWithin(quotaCall.seen, quotaCall.time, HourWindow)
       IN  quotaCall.result =
              ~(\/ day >= daily_limit
                \/ hour >= hourly_limit
                \/ (quotaCall.priority = "low" /\ 10 * day > 8 * daily_limit))

\* a caller is permitted when the requests that reached the hourly limit
\* are exactly 3600 seconds old
C21_Witness ==
    /\ quotaCall.result
    /\ quotaCall.priority = "normal"
    /\ quotaCall.seen >= hourly_limit
    /\ CountWithin(quotaCall.seen, request_history[quotaCall.seen], HourWindow) >= hourly_limit
    /\ quotaCall.time - request_history[quotaCall.seen] = HourWindow

\* the service is one of the critical services
InCriticalList(service) == service # NoService /\ LowerWords(service) \in critical_services

\* C22: the Planner uses enhanced synthesis exactly when the quota permits
\* the request and the incident is of high severity, or its service is in the
\* critical-service list, or its error-log count is over the threshold; in
\* every other case it uses basic synthesis, and it publishes a plan whenever
\* the model's answer can be parsed
C22_EnhancedExactlyWhen ==
    synthesis.path # Null =>
       LET inc == synthesis.incident
           wanted == /\ synthesis.permitted
                     /\ \/ inc.severity = "high"
                        \/ InCriticalList(inc.service)
                        \/ inc.error_log_count > 3
       IN  /\ synthesis.path = (IF wanted THEN "enhanced" ELSE "basic")
           /\ synthesis.llmOk => synthesis.outcome = "published"

\* C23: without a valid severity from the caller the derived severity is
\* high if error_rate >= 0.05 or latency_p95_ms >= 800 or more than 5 logs
\* are classified error, medium if at least one log is classified error, and
\* low otherwise; a severity of low, medium or high from the caller is kept
C23_DerivedSeverity ==
    normalization.stage >= 1 =>
       LET raw == normalization.raw
           m == raw.metrics
           errors == ErrorLogs(MergedLogs(raw))
           severity == normalization.out.derived.severity
       IN  IF raw.severity \in {"low", "medium", "high"} THEN severity = raw.severity
           ELSE /\ severity = "high" <=>
                      \/ (m.error_rate # NoValue /\ m.error_rate >= 50)
                      \/ (m.latency_p95_ms # NoValue /\ m.latency_p95_ms >= 800)
                      \/ errors > 5
                /\ severity = "medium" <=> (severity # "high" /\ errors >= 1)
                /\ severity \in {"low", "medium", "high"}
                /\ m.latency_p95_ms = 799 /\ errors = 0 /\ m.error_rate \in {NoValue, 49}
                      => severity = "low"
                /\ m.error_rate = 50 => severity = "high"

\* latency exactly 800 with nothing else over its threshold gives high
C23_Witness ==
    /\ normalization.stage >= 1
    /\ normalization.raw.severity = "urgent"
    /\ normalization.raw.metrics = [error_rate |-> 49, latency_p95_ms |-> 800]
    /\ ErrorLogs(MergedLogs(normalization.raw)) = 5
    /\ normalization.out.derived.severity = "high"

\* C24: the normalized record holds the first 200 logs, 100 events and 50
\* commits at most, every log has a level among error, warn, info and debug,
\* and derived.error_log_count is the number of error-level logs of the record
C24_CapsAndLevels ==
    normalization.stage >= 1 =>
       LET raw == normalization.raw
           out == normalization.out
           given == Len(raw.logs) + Len(raw.loki_logs) + Len(raw.app_logs)
       IN  /\ Len(out.logs) = (IF given > 200 THEN 200 ELSE given)
           /\ \A i \in DOMAIN out.logs :
                 /\ out.logs[i].timestamp = (raw.logs \o raw.loki_logs \o raw.app_logs)[i].ts
                 /\ out.logs[i].level \in {"error", "warn", "info", "debug"}
           /\ out.k8s_events = Take(raw.k8s_events, 100) /\ Len(out.k8s_events) <= 100
           /\ out.git_commits = Take(raw.git_commits, 50) /\ Len(out.git_commits) <= 50
           /\ out.derived.error_log_count = ErrorLogs(out.logs)

\* C25: normalizing a normalized record gives that record again
C25_NormalizeIdempotent ==
    normalization.stage = 2 => normalization.again = normalization.out

\* C26: in every EnrichedContext that gather_all_context returns, the web
\* search was triggered exactly when no similar incident was found or the
\* internal confidence is below the threshold; no match of similarity below
\* 0.7 is among the similar incidents (matches at 0.62 and 0.58 give none and
\* a triggered search); without a triggered search there is no web
\* knowledge; and the reason of the decision is set
C26_WebSearchDecision ==
    gathering.done /\ ~gathering.raised =>
       LET c == gathering.context
       IN  /\ c.web_search_triggered <=>
                 (c.similar_incidents = <<>> \/ c.internal_confidence < CONFIDENCE_THRESHOLD)
           /\ \A i \in DOMAIN c.similar_incidents : c.similar_incidents[i] >= 70
           /\ gathering.distances = <<38, 42>> =>
                 c.similar_incidents = <<>> /\ c.web_search_triggered
           /\ ~c.web_search_triggered => c.web_knowledge = <<>>
           /\ c.web_search_reason # Null

\* one match at the confidence threshold: no search, no web knowledge
C26_Witness ==
    /\ gathering.done /\ ~gathering.raised
    /\ gathering.chromadb = "ok" /\ gathering.distances = <<20>>
    /\ gathering.context.similar_incidents = <<80>>
    /\ gathering.context.internal_confidence = CONFIDENCE_THRESHOLD
    /\ ~gathering.context.web_search_triggered
    /\ gathering.context.web_knowledge = <<>>

\* C27: gather_all_context does not raise, a failing Logs, HistoryIndex or
\* CodeHistory source has an entry in gathering_errors under its tag and a
\* source that did not fail has none, and the results of the sources that
\* did not fail are returned
C27_FailuresRecorded ==
    gathering.done =>
       LET c == gathering.context
       IN  /\ ~gathering.raised
           /\ "loki" \in c.gathering_errors <=> gathering.loki = "fail"
           /\ "chromadb" \in c.gathering_errors <=> gathering.chromadb = "fail"
           /\ "github" \in c.gathering_errors <=> gathering.github = "fail"
           /\ gathering.loki = "ok" => c.loki_logs = <<"log">>
           /\ gathering.github = "ok" => c.recent_commits = <<"commit">>

\* the document of a plan id after the step
DocAfter(id) == plan_docs'[Min(Matching(plan_docs', id))]

\* C28: the store holds one record per plan id at most, the first write for
\* an id creates the record with created_at set, every later write for the
\* id keeps created_at and advances updated_at, and writing the same plan
\* again leaves the content of the record as it was
C28_UpsertKeepsCreation ==
    [][ /\ \A id \in StorePlanIds : Cardinality(Matching(plan_docs', id)) <= 1
        /\ \A i \in DOMAIN plan_docs :
              LET old == plan_docs[i]
                  new == DocAfter(old.id)
              IN  /\ Matching(plan_docs', old.id) # {}
                  /\ new.created_at = old.created_at
                  /\ new # old => new.updated_at > old.updated_at
        /\ \A id \in StorePlanIds :
              Matching(plan_docs, id) = {} /\ Matching(plan_docs', id) # {}
                 => DocAfter(id).created_at = storeNow ]_vars

TerminalStatuses == {"completed", "failed", "skipped"}

StatusRank(status) ==
    CASE status = "proposed" -> 1
      [] status = "approved" -> 2
      [] status = "executing" -> 3
      [] OTHER -> 4

\* C29: the status of a plan record only moves forward along proposed,
\* approved, executing and then completed, failed or skipped, a record with
\* a terminal status is never set back to proposed, and no write changes the
\* content of a record
C29_StatusMovesForward ==
    [][ \A i \in DOMAIN plan_docs :
           LET old == plan_docs[i]
               new == DocAfter(old.id)
           IN  /\ StatusRank(new.status) >= StatusRank(old.status)
               /\ old.status \in TerminalStatuses => new.status # "proposed"
               /\ new.content = old.content ]_vars

\* the steps that act on a deployment in a namespace, behind the cmd wrapper
WantedSteps(verb, deployment, namespace, replicas) ==
    IF verb = "restart"
    THEN <<cmd_step(<<"rollout", "restart", "deployment/" \o deployment, "-n", namespace>>),
           cmd_step(<<"rollout", "status", "deployment/" \o deployment, "-n", namespace>>)>>
    ELSE <<cmd_step(<<"scale", "deployment/" \o deployment, "--replicas=" \o replicas,
                      "-n", namespace>>),
           cmd_step(<<"rollout", "status", "deployment/" \o deployment, "-n", namespace>>)>>

\* C30: instructions that name a deployment and a namespace compile to
\* steps on exactly that deployment and namespace, as kubectl behind the
\* shell wrapper: rollout restart then rollout status for a restart, scale to
\* the number of replicas then rollout status for a scaling
C30_CompiledTarget ==
    compilation.done =>
       compilation.steps = WantedSteps(compilation.verb, compilation.deployment,
                                       compilation.namespace, compilation.replicas)

\* C31: a planning attempt that reaches the model is recorded against the
\* quota whether it succeeds or fails: after an attempt that ends in a nack
\* the daily and hourly usage are each one higher than before
C31_FailedAttemptsRecorded ==
    [][ /\ synthesis' # synthesis
        /\ synthesis'.path \in {"basic", "enhanced"}
        /\ synthesis'.outcome = "nack"
        => /\ Len(daily_usage') = Len(daily_usage) + 1
           /\ Len(hourly_usage') = Len(hourly_usage) + 1 ]_vars

\* C32: the plan type is quick for a high-severity incident with a heavy
\* error-log signal (more than 3 error logs), deep_dive for another
\* high-severity incident, and comprehensive in every other case
C32_PlanTypeSelection ==
    synthesis.path # Null =>
       LET inc == synthesis.incident
       IN  synthesis.plan_type =
              (IF inc.severity = "high" /\ inc.error_log_count > 3 THEN "quick"
               ELSE IF inc.severity = "high" THEN "deep_dive"
               ELSE "comprehensive")

\* the similarities, in hundredths, of the first five entries that reach 0.7
Qualifying(distances) ==
    SelectSeq([i \in DOMAIN Take(distances, 5) |-> 100 - distances[i]], LAMBDA x : x >= 70)

\* C33: the internal confidence is between 0 and 1: 0 when no match has a
\* similarity of 0.7 or more, the largest similarity when one match
\* qualifies, min(1, max + 0.1 x mean) when several do; at most 5 matches
\* are returned and each has a similarity of 0.7 or more
C33_ConfidenceRange ==
    gathering.done /\ gathering.chromadb = "ok" =>
       LET c == gathering.context
           q == Qualifying(gathering.distances)
           boosted == 10 * Max(Range(q)) + SumSeq(q) \div Len(q)
       IN  /\ c.internal_confidence >= 0 /\ c.internal_confidence <= 1000
           /\ c.similar_incidents = q
           /\ Len(c.similar_incidents) <= 5
           /\ \A i \in DOMAIN c.similar_incidents : c.similar_incidents[i] >= 70
           /\ Len(q) = 0 => c.internal_confidence = 0
           /\ Len(q) = 1 => c.internal_confidence = 10 * q[1]
           /\ Len(q) >= 2 =>
                 c.internal_confidence = (IF boosted > 1000 THEN 1000 ELSE boosted)

\* six entries qualify in the index: five are returned, confidence is 1.0
C33_Witness ==
    /\ gathering.done /\ gathering.chromadb = "ok"
    /\ gathering.distances = <<5, 10, 15, 20, 25, 28>>
    /\ gathering.context.similar_incidents = <<95, 90, 85, 80, 75>>
    /\ gathering.context.internal_confidence = 1000

\* the attempts that succeed
Successes(schedule) == { k \in DOMAIN schedule : schedule[k] }

\* 2 to the power n
RECURSIVE Pow2(_)
Pow2(n) == IF n = 0 THEN 1 ELSE 2 * Pow2(n - 1)

\* the delay before the k-th retry without jitter, in milliseconds
NominalDelay(k) == IF 1000 * Pow2(k - 1) < 60000 THEN 1000 * Pow2(k - 1) ELSE 60000

\* what exponential_backoff promises of a call that has ended: 4 attempts
\* at most, the value of the first attempt that succeeds and no attempt
\* after it, the last exception after 4 failures, and a wait of 50% to 100%
\* of the nominal delay before each retry and none after the last failure
BackoffContract ==
    /\ retry.attempt <= 4
    /\ IF Successes(retry.schedule) # {}
       THEN /\ retry.pc = "returned"
            /\ retry.result = Min(Successes(retry.schedule))
            /\ retry.attempt = retry.result
       ELSE retry.pc = "raised" /\ retry.attempt = 4
    /\ Len(retry.delays) = retry.attempt - 1
    /\ \A k \in DOMAIN retry.delays :
          /\ 2 * retry.delays[k] >= NominalDelay(k)
          /\ retry.delays[k] <= NominalDelay(k)

\* C34: a call through exponential_backoff is attempted 4 times at most,
\* returns the value of its first successful attempt, waits 50% to 100% of
\* min(2^(k-1), 60) seconds before the k-th retry and raises after the 4th
\* failure; and the calls of the enricher's sources are such calls
C34_BackoffAroundSources ==
    retry.pc \in {"returned", "raised", "empty"} => BackoffContract

\* C35: over successive calls through the circuit breaker, a call made less
\* than 60 seconds after the 5th failure in a row fails fast, without
\* invoking the function
C35_OpenCircuitFailsFast ==
    /\ breaker.calls > 0
    /\ breaker.before >= failure_threshold
    /\ breaker.since < recovery_timeout
    => ~breaker.invoked /\ breaker.raised

\* C36: a kubectl.run step, compiled or supplied in the plan, never runs
\* kubectl in a working directory the step chose
C36_KubectlWithoutCwd ==
    /\ lastCall # NoCall
    /\ lastCall.step.tool = "kubectl.run"
    /\ lastCall.res.procs # <<>>
    => ~lastCall.step.args.hasCwd

\* C37: the index the Planner reads holds an entry for an incident only
\* after the Learner processed its Resolution, and an incident that has no
\* published plan yet is not among its own similar incidents
C37_IndexWrittenAtResolution ==
    /\ history.incident_history \subseteq history.resolved
    /\ history.last.first => history.last.id \notin history.last.similar

\* C38: once the processing of a delivery has ended, a key it left in the
\* seen-set has a published Resolution
C38_SeenKeyHasResolution ==
    \A e \in Range(settled) :
       (e.key \in seen_keys /\ ~(actor.pc # "idle" /\ actor.key = e.key))
          => ResolutionsFor(e.key) # {}

\* C39: with the old records purged, the daily and the hourly usage counts
\* stay within their limits, so the remaining counts that get_quota_status
\* reports are not negative
C39_UsageWithinLimits ==
    LET status == get_quota_status(daily_usage, hourly_usage, quotaNow)
    IN  /\ status.daily_usage <= status.daily_limit
        /\ status.hourly_usage <= status.hourly_limit
        /\ status.daily_remaining >= 0
        /\ status.hourly_remaining >= 0

\* C40: every delivery the Planner took was settled by its handler, with
\* an ack after the plan was published or with a nack that requeues, and
\* not with both
C40_EveryDeliverySettled ==
    \A i \in DOMAIN plannerLog :
       /\ plannerLog[i].outcome \in {"ack", "lost", "nack"}
       /\ plannerLog[i].outcome \in {"ack", "lost"}
             => \E j \in DOMAIN proposed : proposed[j] = plannerLog[i].plan

====
